---- MODULE Spec2Model ----
(***************************************************************************)
(* Model of the feedback path of the fashion LinUCB recommendation API:    *)
(* the duplicate-detection guard (middleware/enhancedDuplicateDetection.ts)*)
(* as it is mounted twice for POST /api/feedback (once on the application, *)
(* before the body is parsed, and once on the route), and the feedback     *)
(* handler of routes/recommendations.ts, one action per await point.       *)
(* Time is in milliseconds, as Date.now().                                 *)
(***************************************************************************)
EXTENDS Integers, Sequences, FiniteSets, TLC

\* ---------------------------------------------------------------- bounds
MaxReqs == 2
MaxTicks == 1
MaxInFlight == 2
MaxErrors == 1
MaxRecs == 3
MaxOver == 1
MaxOther == 1
MaxWindows == 1
MaxBatchLen == 3
MaxRecFeedback == 1
MaxFbRecs == 1

\* ---------------------------------------------- DUPLICATE_WINDOWS (ms)
GENERAL_REQUEST == 30000
FEEDBACK_SAME_PRODUCT == 60000
RAPID_FEEDBACK == 5000
IDEMPOTENCY_WINDOW == 86400000
\* the period of the cleanup timer (ms)
CLEANUP_INTERVAL == 60000

\* ---------------------------------------------------------- LINUCB_CONFIG
FEATURE_DIMENSIONS == 26
\* alpha in thousandths, the decay in hundredths
DEFAULT_ALPHA == 200
MIN_ALPHA == 50
MAX_ALPHA == 2000
ADAPTIVE_ALPHA_DECAY == 95

\* ------------------------------ DIVERSITY_CONFIG and the cache's TTL (ms)
EXCLUSION_WINDOW == 20
HISTORY_RETENTION == 100
CACHE_TTL == 300000

\* amounts by which the clock advances between two steps
TickSteps == {1000, 6000, 30000, 60000, 86400000}

\* ---------------------------------------------------------- input sets
NoKey == "nokey"
\* the documents of user_sessions and products (never deleted by the core)
ExistingSessions == {"s1"}
\* the products collection, in a fixed order used to build histories
Products ==
  << "P1", "P2", "P3", "P4", "P5", "P6", "P7", "P8", "P9", "P10", "P11",
     "P12", "P13", "P14", "P15", "P16", "P17", "P18", "P19", "P20", "P21" >>
Catalog == {Products[k] : k \in 1..Len(Products)}

\* The feedback requests clients send.
Req(ip, s, p, a, key, carrier) ==
  [ip |-> ip, session_id |-> s, product_id |-> p, action |-> a,
   key |-> key, carrier |-> carrier]

Requests ==
  { Req("ip1", "s1", "P1", "like", NoKey, "none"),    \* the reference request
    Req("ip1", "s1", "P2", "like", NoKey, "none"),    \* another product
    Req("ip2", "s1", "P1", "love", NoKey, "none"),    \* another client and action
    Req("ip1", "s1", "P1", "like", "k1", "header"),   \* Idempotency-Key header
    Req("ip1", "s1", "P1", "like", "k1", "body"),     \* body.idempotency_key
    Req("ip2", "s1", "P1", "like", "k1", "body"),
    Req("ip1", "s9", "P1", "like", NoKey, "none"),    \* no such session
    Req("ip1", "s1", "PX", "like", NoKey, "none") }   \* no such product

VARIABLES
  now,                  \* Date.now()
  ticks,                \* number of clock advances so far
  recentRequestHashes,  \* Map<hash, DuplicateRecord>
  feedbackHistory,      \* Map<feedbackKey, FeedbackRecord>
  idempotencyKeys,      \* Map<idempotencyKey, DuplicateRecord>
  user_sessions,        \* collection user_sessions
  session_history,      \* collection session_history, per session in insertion order
  interactions,         \* collection interactions, in insertion order
  reqs,                 \* the feedback requests received so far, with their progress
  cache,                \* RecommendationCache.cache: Map<key, CacheItem>
  recs,                 \* the recommend requests received so far, with their progress
  hits,                 \* the rate limiters' stores: hits per limiter and client
  served,               \* what the rate limiters answered, per limiter window
  batch,                \* the POST /api/feedback/batch request and its progress
  lin,                  \* two reconstructions of a session's LinUCB model
  rb,                   \* the POST /api/batch request and its sub-requests
  ver,                  \* a request on its way through the versioning middleware
  cop,                  \* the RecommendationCache.set call in progress
  cleanupTimer          \* setInterval(cleanupExpiredRecords): next run due

vars == <<now, ticks, recentRequestHashes, feedbackHistory, idempotencyKeys,
          user_sessions, session_history, interactions, reqs,
          cache, recs, hits, served, batch, lin, rb, ver, cop, cleanupTimer>>

guardVars == <<recentRequestHashes, feedbackHistory, idempotencyKeys>>
dbVars == <<user_sessions, session_history, interactions>>
\* the state outside the feedback path
extVars == <<cache, recs, hits, served, batch, lin, rb, ver, cop,
             cleanupTimer>>

\* ------------------------------------------------------------- helpers
Put(f, k, v) == [x \in DOMAIN f \cup {k} |-> IF x = k THEN v ELSE f[x]]

\* Math.ceil(a / b) for b > 0
CeilDiv(a, b) == IF a % b = 0 THEN a \div b ELSE (a \div b) + 1

HandlerPcs == {"lookup", "setaction", "replay", "insert", "session", "prefs"}
\* the awaited calls that write, and the read that follows the last write
FailurePoints == {"setaction", "insert", "session", "prefs"}
InFlight(i) == reqs[i].pc # "done"
NumInFlight == Cardinality({i \in DOMAIN reqs : InFlight(i)})

NoResp == [status |-> 0, type |-> "none", key |-> NoKey, ts |-> 0, retry |-> 0,
           action |-> "none", total |-> 0]

\* ------------------------------------------------------------- LinUCB
\* A feature vector is binary (validateFeatureVector): its length and the
\* set of coordinates that are 1.  The products use the coordinates FeatureIdx.
FeatureIdx == 1..3
ProductIndex(p) == CHOOSE k \in 1..Len(Products) : Products[k] = p
featureVector(p) ==
  [length |-> FEATURE_DIMENSIONS,
   ones |-> {(ProductIndex(p) % 3) + 1, ((ProductIndex(p) + 1) % 3) + 1}]

\* inverse(A).mmul(b) on the three coordinates of FeatureIdx, exactly: the
\* inverse is the transposed cofactor matrix over the determinant, so theta
\* is the fraction num[k] / den (b and num in tenths).
Cyc(k) == (k % 3) + 1
Cofactor(A, i, j) ==
  A[<<Cyc(i), Cyc(j)>>] * A[<<Cyc(Cyc(i)), Cyc(Cyc(j))>>]
    - A[<<Cyc(i), Cyc(Cyc(j))>>] * A[<<Cyc(Cyc(i)), Cyc(j)>>]
Determinant(A) ==
  A[<<1, 1>>] * Cofactor(A, 1, 1) + A[<<1, 2>>] * Cofactor(A, 1, 2)
    + A[<<1, 3>>] * Cofactor(A, 1, 3)
inverseMmul(A, b) ==
  [num |-> [k \in FeatureIdx |->
              Cofactor(A, 1, k) * b[1] + Cofactor(A, 2, k) * b[2]
                + Cofactor(A, 3, k) * b[3]],
   den |-> Determinant(A)]

\* new LinUCBModel(alpha, dimensions): A = I, b = 0, theta = 0.  A and b are
\* kept on the coordinates the products use (elsewhere A stays the identity
\* and b stays 0); b is in tenths.  alpha is session.alpha, which POST
\* /session always stores as DEFAULT_ALPHA.
LinUCBModel(dimensions) ==
  LET A0 == [p \in FeatureIdx \X FeatureIdx |-> IF p[1] = p[2] THEN 1 ELSE 0]
      b0 == [k \in FeatureIdx |-> 0]
  IN  [dimensions |-> dimensions, A |-> A0, b |-> b0,
       theta |-> inverseMmul(A0, b0), totalInteractions |-> 0,
       alpha |-> DEFAULT_ALPHA]

\* adaptAlpha: after more than 10 interactions alpha is multiplied by the
\* decay, not below MIN_ALPHA.  No route and no method of the model calls it.
adaptAlpha(m) ==
  IF m.totalInteractions > 10
    THEN [m EXCEPT !.alpha =
            IF (@ * ADAPTIVE_ALPHA_DECAY) \div 100 > MIN_ALPHA
              THEN (@ * ADAPTIVE_ALPHA_DECAY) \div 100 ELSE MIN_ALPHA]
    ELSE m

\* updateModel: A + x x^T, b + r x, theta, totalInteractions + 1; a vector of
\* another length than the model's makes it throw before anything is
\* assigned, and the catch returns success: false.  this.alpha is not
\* assigned.
\* variant: b is set to r x instead of b + r x
updateModel_lastReward(m, x, reward) ==
  IF x.length # m.dimensions
    THEN [model |-> m, success |-> FALSE]
    ELSE LET A2 == [p \in DOMAIN m.A |->
                      m.A[p] + (IF p[1] \in x.ones /\ p[2] \in x.ones THEN 1 ELSE 0)]
             b2 == [k \in DOMAIN m.b |->
                      (IF k \in x.ones THEN reward ELSE 0)]
         IN  [model |-> [m EXCEPT !.A = A2, !.b = b2,
                                  !.theta = inverseMmul(A2, b2),
                                  !.totalInteractions = @ + 1],
              success |-> TRUE]

updateModel(m, x, reward) ==
  IF x.length # m.dimensions
    THEN [model |-> m, success |-> FALSE]
    ELSE LET A2 == [p \in DOMAIN m.A |->
                      m.A[p] + (IF p[1] \in x.ones /\ p[2] \in x.ones THEN 1 ELSE 0)]
             b2 == [k \in DOMAIN m.b |->
                      m.b[k] + (IF k \in x.ones THEN reward ELSE 0)]
         IN  [model |-> [m EXCEPT !.A = A2, !.b = b2,
                                  !.theta = inverseMmul(A2, b2),
                                  !.totalInteractions = @ + 1],
              success |-> TRUE]

\* ---------------------------------------- generateEnhancedRequestHash
\* JSON.stringify(req.body): the fields of the parsed body; before the body
\* is parsed req.body is undefined, which join('|') renders as ''.
BodyOf(q, parsed) ==
  IF parsed
    THEN <<q.session_id, q.product_id, q.action,
           IF q.carrier = "body" THEN q.key ELSE NoKey>>
    ELSE <<>>

generateEnhancedRequestHash(q, path, parsed) ==
  [ip |-> q.ip, method |-> "POST", path |-> path, body |-> BodyOf(q, parsed)]

FeedbackKey(s, p, a) == [session_id |-> s, product_id |-> p, action |-> a]

\* req.headers['idempotency-key'] || req.body?.idempotency_key
IdempotencyKeyOf(q, parsed) ==
  IF q.carrier = "header" THEN q.key
  ELSE IF parsed /\ q.carrier = "body" THEN q.key
  ELSE NoKey

\* ------------------------------------------------ checkFeedbackConflict
NoConflict == [type |-> "none", originalTimestamp |-> 0, allowRetryAfter |-> 0]

checkFeedbackConflict(sessionId, productId, action, idempotencyKey, t) ==
  LET feedbackKey == FeedbackKey(sessionId, productId, action) IN
  IF feedbackKey \notin DOMAIN feedbackHistory THEN NoConflict
  ELSE
    LET existingFeedback == feedbackHistory[feedbackKey]
        timeSinceLastFeedback == t - existingFeedback.timestamp
    IN  IF timeSinceLastFeedback >= FEEDBACK_SAME_PRODUCT THEN NoConflict
        ELSE IF idempotencyKey # NoKey
                  /\ existingFeedback.idempotencyKey = idempotencyKey
          THEN NoConflict
        ELSE IF timeSinceLastFeedback < RAPID_FEEDBACK
          THEN [type |-> "rapid_feedback",
                originalTimestamp |-> existingFeedback.timestamp,
                allowRetryAfter |->
                  CeilDiv(RAPID_FEEDBACK - timeSinceLastFeedback, 1000)]
        ELSE [type |-> "feedback_conflict",
              originalTimestamp |-> existingFeedback.timestamp,
              allowRetryAfter |->
                CeilDiv(FEEDBACK_SAME_PRODUCT - timeSinceLastFeedback, 1000)]

\* the idempotency-key lookup at the head of enhancedDuplicateDetection
\* variant: a key is forgotten after FEEDBACK_SAME_PRODUCT instead of
\* IDEMPOTENCY_WINDOW
IdempotentHit_shortWindow(idempotencyKey) ==
  /\ idempotencyKey # NoKey
  /\ idempotencyKey \in DOMAIN idempotencyKeys
  /\ now - idempotencyKeys[idempotencyKey].timestamp < FEEDBACK_SAME_PRODUCT

IdempotentHit(idempotencyKey) ==
  /\ idempotencyKey # NoKey
  /\ idempotencyKey \in DOMAIN idempotencyKeys
  /\ now - idempotencyKeys[idempotencyKey].timestamp < IDEMPOTENCY_WINDOW

\* --------------------------------------------- enhancedDuplicateDetection
\* One run of the middleware for request i (method POST) at time `now`;
\* `parsed` tells whether express.json has run, `path` is req.path as the
\* middleware sees it.  The result names the verdict, the response sent (if
\* any), the request whose record matched, and the three tables afterwards.
enhancedDuplicateDetection(i, q, path, parsed) ==
  LET hash == generateEnhancedRequestHash(q, path, parsed)
      idempotencyKey == IdempotencyKeyOf(q, parsed)
      isFeedback == parsed
      idemHit == IdempotentHit(idempotencyKey)
      conflict == IF isFeedback
                    THEN checkFeedbackConflict(q.session_id, q.product_id,
                                               q.action, idempotencyKey, now)
                    ELSE NoConflict
      fhAfter == IF isFeedback
                   THEN Put(feedbackHistory,
                            FeedbackKey(q.session_id, q.product_id, q.action),
                            [timestamp |-> now, idempotencyKey |-> idempotencyKey,
                             processed |-> FALSE, req |-> i])
                   ELSE feedbackHistory
      dupHit == /\ hash \in DOMAIN recentRequestHashes
                /\ now - recentRequestHashes[hash].timestamp < GENERAL_REQUEST
      record == [timestamp |-> now, idempotencyKey |-> idempotencyKey, req |-> i]
  IN
  IF idemHit THEN
    [verdict |-> "idempotent",
     resp |-> [status |-> 200, type |-> "idempotent_retry", key |-> idempotencyKey,
               ts |-> idempotencyKeys[idempotencyKey].timestamp, retry |-> 0,
               action |-> "none", total |-> 0],
     match |-> idempotencyKeys[idempotencyKey].req,
     rrh |-> recentRequestHashes, fh |-> feedbackHistory, ik |-> idempotencyKeys]
  ELSE IF conflict.type # "none" THEN
    [verdict |-> "conflict",
     resp |-> [status |-> 409, type |-> conflict.type, key |-> NoKey,
               ts |-> conflict.originalTimestamp,
               retry |-> conflict.allowRetryAfter,
               action |-> q.action, total |-> 0],
     match |-> feedbackHistory[FeedbackKey(q.session_id, q.product_id, q.action)].req,
     rrh |-> recentRequestHashes, fh |-> feedbackHistory, ik |-> idempotencyKeys]
  ELSE IF dupHit THEN
    [verdict |-> "duplicate",
     resp |-> [status |-> 409, type |-> "duplicate_request", key |-> NoKey,
               ts |-> recentRequestHashes[hash].timestamp,
               retry |-> CeilDiv(GENERAL_REQUEST
                                   - (now - recentRequestHashes[hash].timestamp), 1000),
               action |-> "none", total |-> 0],
     match |-> recentRequestHashes[hash].req,
     rrh |-> recentRequestHashes, fh |-> fhAfter, ik |-> idempotencyKeys]
  ELSE
    [verdict |-> "pass", resp |-> NoResp, match |-> 0,
     rrh |-> Put(recentRequestHashes, hash, record),
     fh |-> fhAfter,
     ik |-> IF idempotencyKey # NoKey
              THEN Put(idempotencyKeys, idempotencyKey, record)
              ELSE idempotencyKeys]

\* ------------------------------------------------------- rate limiting
\* rateLimitConfigs: every limiter counts over windowMs and is keyed by req.ip
windowMs == 60000
RateMax == [general |-> 100, recommendations |-> 30, batch |-> 10,
            feedback |-> 50, session |-> 5]

ipWhitelist == {"127.0.0.1", "::1"}
skipRateLimitForWhitelist(ip) == ip \in ipWhitelist

\* app.use(path, limiter), in the order of mounting; a path is its segments
Mounts ==
  << [path |-> <<"api", "session">>, limiter |-> "session"],
     [path |-> <<"api", "recommend">>, limiter |-> "recommendations"],
     [path |-> <<"api", "feedback">>, limiter |-> "feedback"],
     [path |-> <<"api", "batch">>, limiter |-> "batch"],
     [path |-> <<"api", "recommendations", "batch">>, limiter |-> "batch"],
     [path |-> <<"api", "feedback", "batch">>, limiter |-> "batch"],
     [path |-> <<"api">>, limiter |-> "general"] >>

\* express matches a mount when its segments are a prefix of the request's
MountMatches(mount, path) ==
  /\ Len(mount) <= Len(path)
  /\ \A k \in 1..Len(mount) : mount[k] = path[k]

\* variant: the session routes are mounted on the general limiter
LimitersOf_sessionOnGeneral(path) ==
  LET matching == SelectSeq(Mounts, LAMBDA m : MountMatches(m.path, path))
  IN  [k \in 1..Len(matching) |->
         IF matching[k].limiter = "session" THEN "general"
         ELSE matching[k].limiter]

\* the limiters a request passes, in order
LimitersOf(path) ==
  LET matching == SelectSeq(Mounts, LAMBDA m : MountMatches(m.path, path))
  IN  [k \in 1..Len(matching) |-> matching[k].limiter]

keyGenerator(ip) == ip

\* the store of a limiter: a client's count restarts windowMs after the hit
\* that opened its window
increment(store, key, t) ==
  IF key \in DOMAIN store /\ t < store[key].resetTime
    THEN Put(store, key, [store[key] EXCEPT !.totalHits = @ + 1])
    ELSE Put(store, key, [totalHits |-> 1, resetTime |-> t + windowMs])

\* handler of a limiter: 429 with Retry-After of Math.round(60000 / 1000) s
handler(limiter) ==
  [status |-> 429, retryAfter |-> "60", limiter |-> limiter,
   limit |-> RateMax[limiter]]
\* next(): the request goes on to the duplicate guard and its route
PassedOn == [status |-> 200, retryAfter |-> "", limiter |-> "none", limit |-> 0]

\* a request runs through its limiters until one rejects it
RECURSIVE RunLimiters(_, _, _, _)
RunLimiters(store, limiters, ip, t) ==
  IF limiters = <<>> THEN [store |-> store, resp |-> PassedOn]
  ELSE LET limiter == Head(limiters)
           key == <<limiter, keyGenerator(ip)>>
           counted == increment(store, key, t)
       IN  IF counted[key].totalHits > RateMax[limiter]
             THEN [store |-> counted, resp |-> handler(limiter)]
             ELSE RunLimiters(counted, Tail(limiters), ip, t)

\* the endpoint class of a path: the limiter of its most specific mount
ClassOf(path) ==
  LET matching == SelectSeq(Mounts, LAMBDA m : MountMatches(m.path, path))
      k == CHOOSE x \in 1..Len(matching) :
             \A y \in 1..Len(matching) :
               Len(matching[y].path) <= Len(matching[x].path)
  IN  matching[k].limiter

RateIps == {"ip1", "127.0.0.1"}
RatePaths == { <<"api", "session">>, <<"api", "recommend", "s1">>,
               <<"api", "feedback">>, <<"api", "feedback", "batch">>,
               <<"api", "recommendations", "batch">>, <<"api", "health">> }
RateRequests == [ip : RateIps, path : RatePaths]
NoRateRequest == [ip |-> "none", path |-> <<>>]
NoServed ==
  [first |-> NoRateRequest,
   last |-> [ip |-> "none", path |-> <<>>, at |-> 0, before |-> 0,
             resp |-> PassedOn],
   tally |-> <<>>]

\* no batch request received yet
NoBatch ==
  [pc |-> "none", ip |-> "none", feedbacks |-> <<>>, shape |-> "none",
   ignoreConflicts |-> FALSE, status |-> 0, type |-> "none", conflicts |-> {},
   groups |-> <<>>, todo |-> <<>>, totalInteractions |-> 0,
   interactionDocs |-> <<>>, processed |-> {}, continueOnError |-> TRUE,
   results |-> <<>>, sessionSuccessCount |-> 0, successfulFeedbacks |-> 0,
   failedFeedbacks |-> 0]

\* setInterval(() => cleanupExpiredRecords(), 60000) at module load: the
\* first run is due one interval after the start.
NoTimer == [due |-> CLEANUP_INTERVAL, runs |-> 0]

\* No cache.set call in progress.
NoCop == [pc |-> "idle", sessionId |-> "none", inserted |-> 0, calls |-> 0,
          idle |-> 0]

\* No request in the versioning middleware.
NoVer ==
  [pc |-> "none",
   req |-> [path |-> <<>>, accept |-> [vendor |-> FALSE, v |-> "none"],
            header |-> "none", query |-> "none"],
   url |-> <<>>, apiVersion |-> "none", headers |-> {}, status |-> 0,
   by |-> "none"]

\* No batch recommendation request received.
NoRb == [pc |-> "none", parallel |-> FALSE, requests |-> <<>>, subs |-> <<>>,
         status |-> 0]

\* No reconstruction in progress.
NoLin ==
  [pc |-> "none", done |-> 0, rest |-> {},
   first |-> LinUCBModel(FEATURE_DIMENSIONS),
   second |-> LinUCBModel(FEATURE_DIMENSIONS)]

\* ------------------------------------------------------------ the state
Init ==
  /\ now = 0
  /\ ticks = 0
  /\ recentRequestHashes = <<>>
  /\ feedbackHistory = <<>>
  /\ idempotencyKeys = <<>>
  /\ user_sessions = [s \in ExistingSessions |-> [total_interactions |-> 0, updated_at |-> 0, status |-> "active",
        feature_dimensions |-> FEATURE_DIMENSIONS]]
  /\ session_history =
       [s \in ExistingSessions |->
          << [id |-> 1, product_id |-> "P1", user_action |-> "null"],
             [id |-> 2, product_id |-> "P2", user_action |-> "null"] >>]
  /\ interactions = <<>>
  /\ reqs = <<>>
  /\ cache = <<>>
  /\ recs = <<>>
  /\ hits = <<>>
  /\ served = NoServed
  /\ batch = NoBatch
  /\ lin = NoLin
  /\ rb = NoRb
  /\ ver = NoVer
  /\ cop = NoCop
  /\ cleanupTimer = NoTimer

\* The clock advances.  No step of the handler reads the clock and the body
\* of a request is parsed within the same millisecond, so time is let pass
\* only between requests.
Tick ==
  /\ ticks < MaxTicks
  /\ Len(reqs) > 0
  /\ NumInFlight = 0
  /\ \E d \in TickSteps : now' = now + d
  /\ ticks' = ticks + 1
  /\ UNCHANGED <<guardVars, dbVars, reqs, extVars>>

\* A POST /api/feedback arrives: app.use(enhancedDuplicateDetection) runs
\* before express.json, so the middleware sees no body and path /api/feedback.
Receive(q) ==
  LET i == Len(reqs) + 1
      g == enhancedDuplicateDetection(i, q, "/api/feedback", FALSE)
  IN  /\ recentRequestHashes' = g.rrh
      /\ feedbackHistory' = g.fh
      /\ idempotencyKeys' = g.ik
      /\ reqs' = Append(reqs,
           [q |-> q, at |-> now, snap |-> 0, updated |-> "none",
            pc |-> IF g.verdict = "pass" THEN "parse" ELSE "done",
            resp |-> g.resp, by |-> IF g.verdict = "pass" THEN "none" ELSE "app",
            match |-> g.match,
            wrote |-> IF <<g.rrh, g.fh, g.ik>> # guardVars
                        THEN {"guard"} ELSE {}])
      /\ UNCHANGED <<now, ticks, dbVars, extVars>>

Arrive ==
  /\ Len(reqs) < MaxReqs
  /\ NumInFlight < MaxInFlight
  /\ \E q \in Requests : Receive(q)

\* The route's own enhancedDuplicateDetection (router.post('/feedback',
\* requireDatabase, enhancedDuplicateDetection, ...)): the body is parsed now
\* and req.path is relative to the router's mount point.  The validators
\* that follow accept every request of Requests.
RouteGuard(i) ==
  /\ reqs[i].pc = "parse"
  /\ LET q == reqs[i].q
         g == enhancedDuplicateDetection(i, q, "/feedback", TRUE)
     IN  /\ recentRequestHashes' = g.rrh
         /\ feedbackHistory' = g.fh
         /\ idempotencyKeys' = g.ik
         /\ reqs' = [reqs EXCEPT
              ![i].pc = IF g.verdict = "pass" THEN "lookup" ELSE "done",
              ![i].resp = g.resp,
              ![i].by = IF g.verdict = "pass" THEN "none" ELSE "route",
              ![i].match = g.match,
              ![i].wrote = IF <<g.rrh, g.fh, g.ik>> # guardVars
                             THEN @ \cup {"guard"} ELSE @]
  /\ UNCHANGED <<now, ticks, dbVars, extVars>>

Respond(i, status, type) ==
  reqs' = [reqs EXCEPT ![i].pc = "done", ![i].by = "handler",
             ![i].resp = [NoResp EXCEPT !.status = status, !.type = type]]

\* variant: the session record is touched before the product is looked up
Lookup_touch(i) ==
  /\ reqs[i].pc = "lookup"
  /\ LET q == reqs[i].q IN
       IF q.session_id \notin DOMAIN user_sessions
         THEN /\ Respond(i, 404, "session_not_found")
              /\ UNCHANGED user_sessions
       ELSE IF q.product_id \notin Catalog
         THEN /\ reqs' = [reqs EXCEPT ![i].pc = "done", ![i].by = "handler",
                            ![i].wrote = @ \cup {"session"},
                            ![i].resp = [NoResp EXCEPT !.status = 404,
                                           !.type = "product_not_found"]]
              /\ user_sessions' =
                   [user_sessions EXCEPT ![q.session_id].updated_at = now]
       ELSE /\ reqs' = [reqs EXCEPT ![i].pc = "setaction"]
            /\ UNCHANGED user_sessions
  /\ UNCHANGED <<now, ticks, guardVars, session_history, interactions, extVars>>

\* user_sessions.findOne and products.findOne: 404 when either is missing.
\* Neither collection loses or gains documents, so the two reads are one step.
Lookup(i) ==
  /\ reqs[i].pc = "lookup"
  /\ LET q == reqs[i].q IN
       IF q.session_id \notin DOMAIN user_sessions
         THEN Respond(i, 404, "session_not_found")
       ELSE IF q.product_id \notin Catalog
         THEN Respond(i, 404, "product_not_found")
       ELSE reqs' = [reqs EXCEPT ![i].pc = "setaction"]
  /\ UNCHANGED <<now, ticks, guardVars, dbVars, extVars>>

\* updateUserAction: updateOne({session_id, product_id}, {$set: user_action})
\* changes one matching document, if any.  The filter carries no sort, so
\* which of several matching documents is changed depends on the plan the
\* database picks: the first in collection order (collection scan, index on
\* session_id or on product_id) or the most recently shown (index on
\* {session_id, shown_at: -1}).
MatchingEntries(hist, productId) ==
  {k \in 1..Len(hist) : hist[k].product_id = productId}

FirstMatch(hist, productId) ==
  CHOOSE k \in MatchingEntries(hist, productId) :
    \A m \in MatchingEntries(hist, productId) : k <= m

LastMatch(hist, productId) ==
  CHOOSE k \in MatchingEntries(hist, productId) :
    \A m \in MatchingEntries(hist, productId) : m <= k

updateUserAction(hist, k, action) == [hist EXCEPT ![k].user_action = action]

SetAction(i) ==
  /\ reqs[i].pc = "setaction"
  /\ LET q == reqs[i].q
         hist == session_history[q.session_id]
     IN  IF MatchingEntries(hist, q.product_id) = {}
           THEN /\ UNCHANGED session_history
                /\ reqs' = [reqs EXCEPT ![i].pc = "replay"]
           ELSE \E k \in {FirstMatch(hist, q.product_id),
                           LastMatch(hist, q.product_id)} :
                  /\ session_history' =
                       [session_history EXCEPT
                          ![q.session_id] = updateUserAction(hist, k, q.action)]
                  /\ reqs' = [reqs EXCEPT ![i].pc = "replay",
                                          ![i].wrote = @ \cup {"history"}]
  /\ UNCHANGED <<now, ticks, guardVars, user_sessions, interactions, extVars>>

\* interactions.find({session_id}).toArray() and the replay through a fresh
\* LinUCBModel: updateModel increments totalInteractions once per interaction.
SessionInteractions(s) ==
  {k \in 1..Len(interactions) : interactions[k].session_id = s}

\* for (const interaction of interactions) updateModel(feature_vector, reward)
RECURSIVE ReplayInteractions(_, _)
ReplayInteractions(m, docs) ==
  IF docs = <<>> THEN m
  ELSE ReplayInteractions(
         updateModel(m, featureVector(Head(docs).product_id), Head(docs).reward).model,
         Tail(docs))

SessionLog(s) == SelectSeq(interactions, LAMBDA d : d.session_id = s)

Replay(i) ==
  /\ reqs[i].pc = "replay"
  /\ LET s == reqs[i].q.session_id
         m == ReplayInteractions(LinUCBModel(user_sessions[s].feature_dimensions),
                                 SessionLog(s))
     IN  reqs' = [reqs EXCEPT ![i].pc = "insert",
                              ![i].snap = m.totalInteractions]
  /\ UNCHANGED <<now, ticks, guardVars, dbVars, extVars>>

\* mapActionToReward, in tenths
mapActionToReward(action) ==
  CASE action = "love" -> 20
    [] action = "like" -> 10
    [] action = "dislike" -> -10
    [] action = "skip" -> -5
    [] action = "neutral" -> 0
    [] OTHER -> 0

\* collection.insertOne
\* variant: the document is written twice
insertOne_twice(coll, doc) == Append(Append(coll, doc), doc)

insertOne(coll, doc) == Append(coll, doc)

\* STEP 4-6: reward, updateModel (its result's success flag is not read),
\* interactions.insertOne.  The model replayed at STEP 2 has the session's
\* dimensions and totalInteractions = snap; snap becomes the count after the
\* update.
InsertInteraction(i) ==
  /\ reqs[i].pc = "insert"
  /\ LET q == reqs[i].q
         m == [LinUCBModel(user_sessions[q.session_id].feature_dimensions)
                 EXCEPT !.totalInteractions = reqs[i].snap]
         updateResult == updateModel(m, featureVector(q.product_id),
                                     mapActionToReward(q.action))
     IN  /\ interactions' = insertOne(interactions,
                [session_id |-> q.session_id, product_id |-> q.product_id,
                 action |-> q.action, reward |-> mapActionToReward(q.action),
                 req |-> i])
         /\ reqs' = [reqs EXCEPT ![i].pc = "session",
                                 ![i].updated = IF updateResult.success THEN "ok" ELSE "failed",
                                 ![i].snap = updateResult.model.totalInteractions,
                                 ![i].wrote = @ \cup {"interactions"}]
  /\ UNCHANGED <<now, ticks, guardVars, user_sessions, session_history, extVars>>

\* STEP 7: user_sessions.updateOne($set total_interactions = model's count)
UpdateSession(i) ==
  /\ reqs[i].pc = "session"
  /\ user_sessions' =
       [user_sessions EXCEPT
          ![reqs[i].q.session_id] =
             [@ EXCEPT !.total_interactions = reqs[i].snap,
                       !.updated_at = now]]
  /\ reqs' = [reqs EXCEPT ![i].pc = "prefs", ![i].wrote = @ \cup {"session"}]
  /\ UNCHANGED <<now, ticks, guardVars, session_history, interactions, extVars>>

\* RecommendationCache.generateKey: JSON.stringify(keyData,
\* Object.keys(keyData).sort()) uses the array ["count", "filters",
\* "sessionId"] as the property allow-list at every depth, so no property of
\* filters is serialised: the key is made of the session and the count.
generateKey(sessionId, filters, count) ==
  [sessionId |-> sessionId, count |-> count]

\* variant: nothing is deleted
invalidateSession_none(c, sessionId) == c

\* RecommendationCache.invalidateSession: delete every item of the session
invalidateSession(c, sessionId) ==
  [k \in {x \in DOMAIN c : c[x].sessionId # sessionId} |-> c[k]]

\* markFeedbackProcessed
markFeedbackProcessed(fh, s, p, a) ==
  IF FeedbackKey(s, p, a) \in DOMAIN fh
    THEN [fh EXCEPT ![FeedbackKey(s, p, a)].processed = TRUE]
    ELSE fh

\* STEP 8 to the end: getUserPreferences reads the session history, then
\* markFeedbackProcessed, recommendationCache.invalidateSession and
\* res.json(200) run without another await.
Finish(i) ==
  /\ reqs[i].pc = "prefs"
  /\ LET q == reqs[i].q IN
       /\ feedbackHistory' =
            markFeedbackProcessed(feedbackHistory, q.session_id, q.product_id, q.action)
       /\ cache' = invalidateSession(cache, q.session_id)
       /\ reqs' = [reqs EXCEPT
             ![i].pc = "done", ![i].by = "handler",
             ![i].wrote = IF invalidateSession(cache, q.session_id) # cache
                            THEN @ \cup {"cache"} ELSE @,
             ![i].resp = [NoResp EXCEPT !.status = 200,
                                        !.type = "feedback_processed",
                                        !.action = q.action,
                                        !.total = reqs[i].snap]]
  /\ UNCHANGED <<now, ticks, recentRequestHashes, idempotencyKeys, dbVars, recs, hits, served, batch, lin, rb, ver, cop, cleanupTimer>>

\* Any awaited database call of the handler may reject; the handler's catch
\* block answers 500 and undoes nothing.
DbError(i) ==
  /\ reqs[i].pc \in FailurePoints
  /\ Cardinality({j \in DOMAIN reqs : reqs[j].resp.status = 500}) < MaxErrors
  /\ Respond(i, 500, "internal")
  /\ UNCHANGED <<now, ticks, guardVars, dbVars, extVars>>

\* ------------------------------------------- GET /api/recommend/:sessionId
Min(a, b) == IF a < b THEN a ELSE b

\* getSessionHistory: find({session_id}).sort({shown_at: -1}).limit(limit);
\* the stored history is kept in the order of shown_at, oldest first.
getSessionHistory(hist, limit) ==
  [k \in 1..Min(Len(hist), limit) |-> hist[Len(hist) - k + 1]]

\* sessionHistory.slice(0, EXCLUSION_WINDOW).map(entry => entry.product_id)
excludeIds(sessionHistory) ==
  {sessionHistory[k].product_id :
     k \in 1..Min(Len(sessionHistory), EXCLUSION_WINDOW)}

\* getFilteredCandidates: products with product_id $nin excludeIds.  The
\* price, category and diversity filters and the scores narrow the choice
\* further; which candidate is selected among the top scores is random.
getFilteredCandidates(exclude) == Catalog \ exclude

\* the product ids of the EXCLUSION_WINDOW most recent stored entries
RecentlyShown(s) ==
  IF s \in DOMAIN session_history
    THEN excludeIds(getSessionHistory(session_history[s], HISTORY_RETENTION))
    ELSE {}

StoredLen(s) ==
  IF s \in DOMAIN session_history THEN Len(session_history[s]) ELSE 0

\* the recommend requests clients send: the session asked for
RecSessions == {"s1"}

RecInFlight(r) == recs[r].pc # "done"
NumRecInFlight == Cardinality({r \in DOMAIN recs : RecInFlight(r)})
RecsDone == {r \in DOMAIN recs : recs[r].pc = "done"}

NoRec == [session |-> "none", at |-> 0, pc |-> "done", status |-> 0,
          hit |-> FALSE, product |-> "none", recent |-> {}, after |-> {},
          fb |-> 0, seen |-> 0, stored |-> 0, hlenHit |-> 0, hlenSet |-> 0,
          newId |-> 0, oldIds |-> {}]

\* RecommendationCache.get: the item under the key unless it is missing or
\* older than its ttl (an expired item is deleted)
CacheKeyLive(key) ==
  /\ key \in DOMAIN cache
  /\ ~(now - cache[key].timestamp > cache[key].ttl)

RecommendationCacheGet(key) ==
  IF key \in DOMAIN cache /\ ~CacheKeyLive(key)
    THEN [k \in DOMAIN cache \ {key} |-> cache[k]]
    ELSE cache

\* The request arrives: recommendationCache.get(sessionId, filters, 1); a
\* hit is answered at once with the cached response.
RecArrive ==
  /\ Len(recs) < MaxRecs
  /\ NumRecInFlight + NumInFlight < MaxInFlight
  /\ \E s \in RecSessions :
       LET key == generateKey(s, "none", 1)
           base == [NoRec EXCEPT !.session = s, !.at = now,
                      !.recent = RecentlyShown(s), !.after = RecsDone,
                      !.fb = Len(reqs)]
       IN  /\ cache' = RecommendationCacheGet(key)
           /\ recs' = Append(recs,
                IF CacheKeyLive(key)
                  THEN [base EXCEPT !.status = 200, !.hit = TRUE,
                          !.product = cache[key].data,
                          !.hlenHit = StoredLen(s),
                          !.hlenSet = cache[key].hlen]
                  ELSE [base EXCEPT !.pc = "read"])
  /\ UNCHANGED <<now, ticks, guardVars, dbVars, reqs, hits, served, batch, lin, rb, ver, cop, cleanupTimer>>

\* user_sessions.findOne (404 when missing), getSessionHistory, exclusion and
\* candidates (404 when none), scoring and selectRecommendation.  What is
\* read after the history (products, interactions) changes the scores only,
\* so the choice is made in the step that reads the history.
RecRead(r) ==
  /\ recs[r].pc = "read"
  /\ LET s == recs[r].session IN
       IF s \notin DOMAIN user_sessions
         THEN recs' = [recs EXCEPT ![r].pc = "done", ![r].status = 404]
       ELSE LET sessionHistory ==
                  getSessionHistory(session_history[s], HISTORY_RETENTION)
                candidates == getFilteredCandidates(excludeIds(sessionHistory))
            IN  IF candidates = {}
                  THEN recs' = [recs EXCEPT ![r].pc = "done", ![r].status = 404]
                  ELSE \E p \in candidates :
                         recs' = [recs EXCEPT ![r].pc = "record",
                                    ![r].product = p,
                                    ![r].seen = Len(sessionHistory),
                                    ![r].stored = Len(session_history[s])]
  /\ UNCHANGED <<now, ticks, guardVars, dbVars, reqs, cache, hits, served, batch, lin, rb, ver, cop, cleanupTimer>>

\* the _id of a new history document
NewId(hist) ==
  IF hist = <<>> THEN 1
  ELSE 1 + (CHOOSE m \in {hist[k].id : k \in 1..Len(hist)} :
              \A k \in 1..Len(hist) : hist[k].id <= m)

\* recordShownProduct, first await: insertOne
RecInsert(r) ==
  /\ recs[r].pc = "record"
  /\ LET s == recs[r].session
         hist == session_history[s]
     IN  /\ session_history' =
              [session_history EXCEPT
                 ![s] = Append(hist, [id |-> NewId(hist),
                                      product_id |-> recs[r].product,
                                      user_action |-> "null"])]
         /\ recs' = [recs EXCEPT ![r].pc = "findold", ![r].newId = NewId(hist)]
  /\ UNCHANGED <<now, ticks, guardVars, user_sessions, interactions, reqs,
                 cache, hits, served, batch, lin, rb, ver, cop, cleanupTimer>>

\* find({session_id}).sort({shown_at: -1}).skip(HISTORY_RETENTION): the
\* documents older than the HISTORY_RETENTION most recent
OldRecords(hist) ==
  {hist[k].id : k \in 1..(Len(hist) - Min(Len(hist), HISTORY_RETENTION))}

\* variant: nothing is deleted
deleteMany_none(hist, oldIds) == hist

\* deleteMany({_id: {$in: oldIds}})
deleteMany(hist, oldIds) == SelectSeq(hist, LAMBDA e : e.id \notin oldIds)

\* The response is built, cached (recommendationCache.set with a TTL of 5
\* minutes) and sent without another await.
RecRespond(r) ==
  LET s == recs[r].session IN
    /\ cache' = Put(cache, generateKey(s, "none", 1),
                    [data |-> recs[r].product, timestamp |-> now,
                     ttl |-> CACHE_TTL, sessionId |-> s,
                     hlen |-> Len(session_history'[s])])
    /\ recs' = [recs EXCEPT ![r].pc = "done", ![r].status = 200]

\* recordShownProduct, second await: the old records are read; with none to
\* delete recordShownProduct returns and the handler answers.
RecFindOld(r) ==
  /\ recs[r].pc = "findold"
  /\ LET old == OldRecords(session_history[recs[r].session]) IN
       IF old = {}
         THEN /\ UNCHANGED session_history
              /\ RecRespond(r)
         ELSE /\ recs' = [recs EXCEPT ![r].pc = "delete", ![r].oldIds = old]
              /\ UNCHANGED <<session_history, cache>>
  /\ UNCHANGED <<now, ticks, guardVars, user_sessions, interactions, reqs, hits, served, batch, lin, rb, ver, cop, cleanupTimer>>

\* recordShownProduct, third await: deleteMany, then the handler answers.
RecDelete(r) ==
  /\ recs[r].pc = "delete"
  /\ session_history' =
       [session_history EXCEPT
          ![recs[r].session] = deleteMany(@, recs[r].oldIds)]
  /\ RecRespond(r)
  /\ UNCHANGED <<now, ticks, guardVars, user_sessions, interactions, reqs, hits, served, batch, lin, rb, ver, cop, cleanupTimer>>

Next ==
  \/ Tick
  \/ Arrive
  \/ \E i \in DOMAIN reqs : RouteGuard(i)
  \/ \E i \in DOMAIN reqs : Lookup(i)
  \/ \E i \in DOMAIN reqs : SetAction(i)
  \/ \E i \in DOMAIN reqs : Replay(i)
  \/ \E i \in DOMAIN reqs : InsertInteraction(i)
  \/ \E i \in DOMAIN reqs : UpdateSession(i)
  \/ \E i \in DOMAIN reqs : Finish(i)
  \/ \E i \in DOMAIN reqs : DbError(i)

Spec == Init /\ [][Next]_vars

\* ------------------------------------------- a client that waits and retries
\* Feedback requests arrive one at a time; a client answered 409 waits the
\* retry_after_seconds it was given and nothing else happens meanwhile.
MaxRetryReqs == 3
RetryRequests ==
  {Req("ip1", "s1", "P1", "like", NoKey, "none"),
   Req("ip2", "s1", "P1", "like", NoKey, "none"),
   Req("ip2", "s1", "P2", "love", NoKey, "none")}

RetryArrive ==
  /\ Len(reqs) < MaxRetryReqs
  /\ NumInFlight = 0
  /\ \E q \in RetryRequests : Receive(q)

RetryWait ==
  /\ Len(reqs) > 0 /\ Len(reqs) < MaxRetryReqs
  /\ NumInFlight = 0
  /\ reqs[Len(reqs)].resp.status = 409
  /\ now = reqs[Len(reqs)].at
  /\ now' = now + 1000 * reqs[Len(reqs)].resp.retry
  /\ UNCHANGED <<ticks, guardVars, dbVars, reqs, extVars>>

RetryNext ==
  \/ RetryArrive
  \/ RetryWait
  \/ \E i \in DOMAIN reqs : RouteGuard(i)
  \/ \E i \in DOMAIN reqs : Lookup(i)
  \/ \E i \in DOMAIN reqs : SetAction(i)
  \/ \E i \in DOMAIN reqs : Replay(i)
  \/ \E i \in DOMAIN reqs : InsertInteraction(i)
  \/ \E i \in DOMAIN reqs : UpdateSession(i)
  \/ \E i \in DOMAIN reqs : Finish(i)
SpecRetry == Init /\ [][RetryNext]_vars

\* ------------------------------------------------ cleanupExpiredRecords
\* variant: feedback records are kept for three windows instead of two
cleanupExpiredRecords_threeWindows(rrh, fh, ik, t) ==
  [rrh |-> [h \in {x \in DOMAIN rrh :
                     ~(t - rrh[x].timestamp > GENERAL_REQUEST)} |-> rrh[h]],
   fh |-> [k \in {x \in DOMAIN fh :
                    ~(t - fh[x].timestamp > FEEDBACK_SAME_PRODUCT * 3)}
             |-> fh[k]],
   ik |-> [k \in {x \in DOMAIN ik :
                    ~(t - ik[x].timestamp > IDEMPOTENCY_WINDOW)} |-> ik[k]]]

\* cleanupExpiredRecords at time t: a record is deleted when its age is
\* strictly greater than its window (twice the window for feedback records)
cleanupExpiredRecords(rrh, fh, ik, t) ==
  [rrh |-> [h \in {x \in DOMAIN rrh :
                     ~(t - rrh[x].timestamp > GENERAL_REQUEST)} |-> rrh[h]],
   fh |-> [k \in {x \in DOMAIN fh :
                    ~(t - fh[x].timestamp > FEEDBACK_SAME_PRODUCT * 2)}
             |-> fh[k]],
   ik |-> [k \in {x \in DOMAIN ik :
                    ~(t - ik[x].timestamp > IDEMPOTENCY_WINDOW)} |-> ik[k]]]

\* Two clients send one feedback each, one at a time, while the timer runs.
\* The timer
\* is an interval timer of the event loop: a run is never early, it may be up
\* to MaxLate ms late, and the next run is due CLEANUP_INTERVAL after it.
MaxCleanupRuns == 3
MaxLate == 1
CleanupRequests ==
  {Req("ip1", "s1", "P1", "like", "k1", "header"),
   Req("ip1", "s1", "P2", "love", NoKey, "none")}
CleanupSteps == {30000, CLEANUP_INTERVAL}
\* stretches in which the timer runs on time and finds nothing to delete
SleepIntervals == {IDEMPOTENCY_WINDOW \div CLEANUP_INTERVAL - k : k \in 1..2}

CleanupArrive ==
  /\ NumInFlight = 0
  /\ \E q \in CleanupRequests :
       /\ \A i \in DOMAIN reqs : reqs[i].q # q
       /\ Receive(q)

\* the clock advances up to the time the next run is due
CleanupAdvance ==
  /\ NumInFlight = 0
  /\ \E d \in CleanupSteps :
       /\ now + d <= cleanupTimer.due
       /\ now' = now + d
  /\ UNCHANGED <<ticks, guardVars, dbVars, reqs, extVars>>

\* the run is due and the event loop has not called it yet
CleanupLate ==
  /\ NumInFlight = 0
  /\ now >= cleanupTimer.due
  /\ now < cleanupTimer.due + MaxLate
  /\ now' = now + 1
  /\ UNCHANGED <<ticks, guardVars, dbVars, reqs, extVars>>

\* the timer calls cleanupExpiredRecords
CleanupRun ==
  /\ now >= cleanupTimer.due
  /\ cleanupTimer.runs < MaxCleanupRuns
  /\ LET swept == cleanupExpiredRecords(recentRequestHashes, feedbackHistory,
                                        idempotencyKeys, now)
     IN  /\ recentRequestHashes' = swept.rrh
         /\ feedbackHistory' = swept.fh
         /\ idempotencyKeys' = swept.ik
  /\ cleanupTimer' = [due |-> now + CLEANUP_INTERVAL, runs |-> cleanupTimer.runs + 1]
  /\ UNCHANGED <<now, ticks, dbVars, reqs, cache, recs, hits, served, batch,
                 lin, rb, ver, cop>>

\* right after a run: n further runs, each on time, none of which finds a
\* record to delete, and no request meanwhile
CleanupSleep ==
  /\ NumInFlight = 0
  /\ cleanupTimer.due = now + CLEANUP_INTERVAL
  /\ cleanupTimer.runs < MaxCleanupRuns
  /\ \E n \in SleepIntervals :
       LET t == now + n * CLEANUP_INTERVAL
           swept == cleanupExpiredRecords(recentRequestHashes, feedbackHistory,
                                          idempotencyKeys, t)
       IN  /\ swept.rrh = recentRequestHashes
           /\ swept.fh = feedbackHistory
           /\ swept.ik = idempotencyKeys
           /\ now' = t
           /\ cleanupTimer' = [due |-> t + CLEANUP_INTERVAL,
                               runs |-> cleanupTimer.runs + 1]
  /\ UNCHANGED <<ticks, guardVars, dbVars, reqs, cache, recs, hits, served,
                 batch, lin, rb, ver, cop>>

CleanupNext ==
  \/ CleanupArrive
  \/ CleanupAdvance
  \/ CleanupLate
  \/ CleanupRun
  \/ CleanupSleep
  \/ \E i \in DOMAIN reqs : RouteGuard(i)
  \/ \E i \in DOMAIN reqs : Lookup(i)
  \/ \E i \in DOMAIN reqs : SetAction(i)
  \/ \E i \in DOMAIN reqs : Replay(i)
  \/ \E i \in DOMAIN reqs : InsertInteraction(i)
  \/ \E i \in DOMAIN reqs : UpdateSession(i)
  \/ \E i \in DOMAIN reqs : Finish(i)

SpecCleanup == Init /\ [][CleanupNext]_vars

\* ------------------------------------- recommend and feedback on a session
\* A session that has been shown HISTORY_RETENTION - 1 products, one after
\* the other through the catalog, and has given no feedback yet.
ShownSoFar ==
  [k \in 1..(HISTORY_RETENTION - 1) |->
     [id |-> k, product_id |-> Products[((k - 1) % Len(Products)) + 1],
      user_action |-> "null"]]

RecInit ==
  /\ now = 0
  /\ ticks = 0
  /\ recentRequestHashes = <<>>
  /\ feedbackHistory = <<>>
  /\ idempotencyKeys = <<>>
  /\ user_sessions = [s \in ExistingSessions |-> [total_interactions |-> 0, updated_at |-> 0, status |-> "active",
        feature_dimensions |-> FEATURE_DIMENSIONS]]
  /\ session_history = [s \in ExistingSessions |-> ShownSoFar]
  /\ interactions = <<>>
  /\ reqs = <<>>
  /\ cache = <<>>
  /\ recs = <<>>
  /\ hits = <<>>
  /\ served = NoServed
  /\ batch = NoBatch
  /\ lin = NoLin
  /\ rb = NoRb
  /\ ver = NoVer
  /\ cop = NoCop
  /\ cleanupTimer = NoTimer

\* The same session just after its next recommendation: the product is in
\* the history and the response is in the cache.
RecFbState(status, dimensions) ==
  /\ now = 0
  /\ ticks = 0
  /\ recentRequestHashes = <<>>
  /\ feedbackHistory = <<>>
  /\ idempotencyKeys = <<>>
  /\ user_sessions = [s \in ExistingSessions |-> [total_interactions |-> 0, updated_at |-> 0, status |-> status,
        feature_dimensions |-> dimensions]]
  /\ session_history =
       [s \in ExistingSessions |->
          Append(ShownSoFar,
                 [id |-> NewId(ShownSoFar),
                  product_id |-> Products[(Len(ShownSoFar) % Len(Products)) + 1],
                  user_action |-> "null"])]
  /\ interactions = <<>>
  /\ reqs = <<>>
  /\ cache =
       [k \in {generateKey(s, "none", 1) : s \in ExistingSessions} |->
          [data |-> Products[(Len(ShownSoFar) % Len(Products)) + 1],
           timestamp |-> 0, ttl |-> CACHE_TTL, sessionId |-> k.sessionId,
           hlen |-> Len(ShownSoFar) + 1]]
  /\ recs = <<>>
  /\ hits = <<>>
  /\ served = NoServed
  /\ batch = NoBatch
  /\ lin = NoLin
  /\ rb = NoRb
  /\ ver = NoVer
  /\ cop = NoCop
  /\ cleanupTimer = NoTimer

RecFbInit == RecFbState("active", FEATURE_DIMENSIONS)

\* the session's document has status inactive (the schema of user_sessions
\* knows active, inactive and expired)
InactiveInit == RecFbState("inactive", FEATURE_DIMENSIONS)

\* the clock advances between requests, by a second or past the cache's TTL
RecTickSteps == {1000, CACHE_TTL + 1}

RecTick ==
  /\ ticks < MaxTicks
  /\ Len(recs) > 0
  /\ NumRecInFlight + NumInFlight = 0
  /\ \E d \in RecTickSteps : now' = now + d
  /\ ticks' = ticks + 1
  /\ UNCHANGED <<guardVars, dbVars, reqs, extVars>>

\* the feedback requests sent to the session between its recommendations
RecFeedback ==
  { Req("ip1", "s1", "P1", "like", NoKey, "none"),
    Req("ip1", "s1", "P2", "like", NoKey, "none"),
    Req("ip2", "s1", "P1", "love", NoKey, "none") }

RecFeedbackArrive ==
  /\ Len(reqs) < MaxRecFeedback
  /\ NumRecInFlight + NumInFlight < MaxInFlight
  /\ Arrive
  /\ reqs'[Len(reqs')].q \in RecFeedback

\* recommend requests alone
RecNext ==
  \/ RecTick
  \/ RecArrive
  \/ \E r \in DOMAIN recs : RecRead(r)
  \/ \E r \in DOMAIN recs : RecInsert(r)
  \/ \E r \in DOMAIN recs : RecFindOld(r)
  \/ \E r \in DOMAIN recs : RecDelete(r)

SpecRec == RecInit /\ [][RecNext]_vars

\* recommend and feedback requests on the session
RecFbArrive ==
  /\ Len(recs) < MaxFbRecs
  /\ RecArrive

RecFbNext ==
  \/ RecFbArrive
  \/ \E r \in DOMAIN recs : RecRead(r)
  \/ \E r \in DOMAIN recs : RecInsert(r)
  \/ \E r \in DOMAIN recs : RecFindOld(r)
  \/ \E r \in DOMAIN recs : RecDelete(r)
  \/ RecFeedbackArrive
  \/ \E i \in DOMAIN reqs : RouteGuard(i)
  \/ \E i \in DOMAIN reqs : Lookup(i)
  \/ \E i \in DOMAIN reqs : SetAction(i)
  \/ \E i \in DOMAIN reqs : Replay(i)
  \/ \E i \in DOMAIN reqs : InsertInteraction(i)
  \/ \E i \in DOMAIN reqs : UpdateSession(i)
  \/ \E i \in DOMAIN reqs : Finish(i)

SpecRecFb == RecFbInit /\ [][RecFbNext]_vars

\* recommend and feedback on a session that is not active
SpecInactive == InactiveInit /\ [][RecFbNext]_vars

\* ------------------------------------------- two replays of one stored log
\* Two handlers rebuild the model of the same session from the same documents
\* of interactions.  find({session_id}).toArray() carries no sort, so the
\* array each of them iterates over holds the same documents in an order the
\* database chooses: the first reconstruction takes them in insertion order,
\* the second in any order.
MaxLogLen == 3
ReplayActions == {"love", "dislike"}
ReplayProducts == {"P1", "P2", "P3"}
ReplayDocs ==
  {[session_id |-> "s1", product_id |-> p, action |-> a,
    reward |-> mapActionToReward(a), req |-> 0] :
     p \in ReplayProducts, a \in ReplayActions}
ReplayLogs == UNION {[1..n -> ReplayDocs] : n \in 1..MaxLogLen}

ReplayInit ==
  /\ interactions \in ReplayLogs
  /\ now = 0
  /\ ticks = 0
  /\ recentRequestHashes = <<>>
  /\ feedbackHistory = <<>>
  /\ idempotencyKeys = <<>>
  /\ user_sessions = [s \in ExistingSessions |->
        [total_interactions |-> Len(interactions), updated_at |-> 0,
         status |-> "active", feature_dimensions |-> FEATURE_DIMENSIONS]]
  /\ session_history = [s \in ExistingSessions |-> <<>>]
  /\ reqs = <<>>
  /\ cache = <<>>
  /\ recs = <<>>
  /\ hits = <<>>
  /\ served = NoServed
  /\ batch = NoBatch
  /\ lin = [NoLin EXCEPT !.pc = "replay", !.rest = 1..Len(interactions)]
  /\ rb = NoRb
  /\ ver = NoVer
  /\ cop = NoCop
  /\ cleanupTimer = NoTimer

\* the first handler's loop body: the next document in insertion order
ReplayFirst ==
  /\ lin.pc = "replay"
  /\ lin.done < Len(SessionLog("s1"))
  /\ LET d == SessionLog("s1")[lin.done + 1] IN
       lin' = [lin EXCEPT
                 !.done = @ + 1,
                 !.first = updateModel(@, featureVector(d.product_id), d.reward).model]
  /\ UNCHANGED <<now, ticks, guardVars, dbVars, reqs, cache, recs, hits, served, batch, rb, ver, cop, cleanupTimer>>

\* the second handler's loop body: any document it has not replayed yet
ReplaySecond ==
  /\ lin.pc = "replay"
  /\ \E k \in lin.rest :
       LET d == SessionLog("s1")[k] IN
         lin' = [lin EXCEPT
                   !.rest = @ \ {k},
                   !.second = updateModel(@, featureVector(d.product_id), d.reward).model]
  /\ UNCHANGED <<now, ticks, guardVars, dbVars, reqs, cache, recs, hits, served, batch, rb, ver, cop, cleanupTimer>>

ReplayNext == ReplayFirst \/ ReplaySecond
SpecReplay == ReplayInit /\ [][ReplayNext]_vars

\* ------------------------------------------- a model under many updates
\* One session's model, as POST /feedback rebuilds it: new LinUCBModel, then
\* one updateModel for each interaction of the log and one for the feedback.
\* lin.first is the model, lin.done the number of updateModel calls.
MaxUpdates == 12
AlphaProducts == {"P1", "P2"}
AlphaActions == {"love", "dislike"}

AlphaUpdate ==
  /\ lin.done < MaxUpdates
  /\ \E p \in AlphaProducts, a \in AlphaActions :
       lin' = [lin EXCEPT
                 !.pc = "replay",
                 !.first = updateModel(@, featureVector(p),
                                       mapActionToReward(a)).model,
                 !.done = @ + 1]
  /\ UNCHANGED <<now, ticks, guardVars, dbVars, reqs, cache, recs, hits,
                 served, batch, rb, ver, cop, cleanupTimer>>

AlphaNext == AlphaUpdate

SpecAlpha == Init /\ [][AlphaNext]_vars

\* The same run over a session document whose feature_dimensions is not the
\* length of the products' feature vectors, so that every updateModel of the
\* session's model fails.
MismatchInit == RecFbState("active", FEATURE_DIMENSIONS - 1)
SpecModelFail == MismatchInit /\ [][RecFbNext]_vars

\* ------------------------------------------------ POST /api/batch
\* One batch recommendation request: up to MaxBatchReqs sub-requests, each
\* naming a session and a count, processed in parallel (the default) or one
\* after the other.
MaxBatchReqs == 2
MaxCount == 3
RbSessions == {"s1", "s9"}
RbRequests == [sessionId : RbSessions, count : 1..MaxCount]
RbBodies == UNION {[1..n -> RbRequests] : n \in 0..MaxBatchReqs}

NoSub == [pc |-> "start", scored |-> {}, selected |-> <<>>, todo |-> <<>>,
          error |-> "none", fields |-> {}]

\* the fields of the result object of one sub-request
ResultFields ==
  {"request_id", "session_id", "count", "recommendations", "filters_applied",
   "user_stats"}

\* the handler up to the start of processing
RbArrive ==
  /\ rb.pc = "none"
  /\ \E requests \in RbBodies, enableParallelProcessing \in BOOLEAN :
       IF Len(requests) = 0
         THEN rb' = [rb EXCEPT !.pc = "done", !.requests = requests,
                               !.status = 400]
         ELSE rb' = [rb EXCEPT !.pc = "run", !.requests = requests,
                               !.parallel = enableParallelProcessing,
                               !.subs = [k \in 1..Len(requests) |-> NoSub]]
  /\ UNCHANGED <<now, ticks, guardVars, dbVars, reqs, cache, recs, hits, served, batch, lin, ver, cop, cleanupTimer>>

\* scoredProducts.sort(...): the scored candidates in the order of their
\* final scores, which is any order
SortedByScore(scored) ==
  {q \in [1..Cardinality(scored) -> scored] :
     \A j, k \in 1..Cardinality(scored) : j # k => q[j] # q[k]}

\* Array.prototype.slice(0, count)
slice(arr, count) == SubSeq(arr, 1, Min(Len(arr), count))

SubError(k, message) ==
  [rb EXCEPT !.subs[k].pc = "done", !.subs[k].error = message]

\* processSingleRecommendationRequest up to the selection: session lookup,
\* history, candidates, scores, top count.  The sequential loop starts a
\* sub-request when the one before it has settled; the parallel map starts
\* them all.
RbRead(k) ==
  /\ rb.pc = "run"
  /\ k \in 1..Len(rb.subs)
  /\ rb.subs[k].pc = "start"
  /\ rb.parallel \/ \A j \in 1..(k - 1) : rb.subs[j].pc = "done"
  /\ LET sessionId == rb.requests[k].sessionId
         count == rb.requests[k].count
     IN  IF sessionId \notin DOMAIN user_sessions
           THEN rb' = SubError(k, "Session not found")
         ELSE IF user_sessions[sessionId].status # "active"
           THEN rb' = SubError(k, "Session is not active")
         ELSE LET sessionHistory ==
                    getSessionHistory(session_history[sessionId], HISTORY_RETENTION)
                  candidates == getFilteredCandidates(excludeIds(sessionHistory))
              IN  IF candidates = {}
                    THEN rb' = SubError(k, "No products found matching the criteria")
                    ELSE \E scoredProducts \in SortedByScore(candidates) :
                           rb' = [rb EXCEPT
                                    !.subs[k].pc = "record",
                                    !.subs[k].scored = candidates,
                                    !.subs[k].selected = slice(scoredProducts, count),
                                    !.subs[k].todo = slice(scoredProducts, count)]
  /\ UNCHANGED <<now, ticks, guardVars, dbVars, reqs, cache, recs, hits, served, batch, lin, ver, cop, cleanupTimer>>

\* recordShownProduct: insertOne, then the records older than the
\* HISTORY_RETENTION most recent are deleted
recordShownProduct(hist, productId) ==
  LET inserted == Append(hist, [id |-> NewId(hist), product_id |-> productId,
                                user_action |-> "null"])
  IN  deleteMany(inserted, OldRecords(inserted))

\* One turn of the loop over the selected products; after the last one the
\* result object is built and the sub-request settles.
RbRecord(k) ==
  /\ rb.pc = "run"
  /\ k \in 1..Len(rb.subs)
  /\ rb.subs[k].pc = "record"
  /\ LET sessionId == rb.requests[k].sessionId
         todo == rb.subs[k].todo
     IN  /\ session_history' =
              [session_history EXCEPT
                 ![sessionId] = recordShownProduct(@, Head(todo))]
         /\ rb' = IF Tail(todo) # <<>>
                    THEN [rb EXCEPT !.subs[k].todo = Tail(todo)]
                    ELSE [rb EXCEPT !.subs[k].todo = <<>>,
                                    !.subs[k].pc = "done",
                                    !.subs[k].fields = ResultFields]
  /\ UNCHANGED <<now, ticks, guardVars, user_sessions, interactions, reqs,
                 cache, recs, hits, served, batch, lin, ver, cop, cleanupTimer>>

\* every sub-request has settled: res.status(200).json(...)
RbRespond ==
  /\ rb.pc = "run"
  /\ \A k \in 1..Len(rb.subs) : rb.subs[k].pc = "done"
  /\ rb' = [rb EXCEPT !.pc = "done", !.status = 200]
  /\ UNCHANGED <<now, ticks, guardVars, dbVars, reqs, cache, recs, hits, served, batch, lin, ver, cop, cleanupTimer>>

\* the session has been shown all products but the last two
RbInit ==
  /\ now = 0
  /\ ticks = 0
  /\ recentRequestHashes = <<>>
  /\ feedbackHistory = <<>>
  /\ idempotencyKeys = <<>>
  /\ user_sessions = [s \in ExistingSessions |->
        [total_interactions |-> 0, updated_at |-> 0, status |-> "active",
         feature_dimensions |-> FEATURE_DIMENSIONS]]
  /\ session_history =
       [s \in ExistingSessions |->
          [k \in 1..(Len(Products) - 2) |->
             [id |-> k, product_id |-> Products[k], user_action |-> "null"]]]
  /\ interactions = <<>>
  /\ reqs = <<>>
  /\ cache = <<>>
  /\ recs = <<>>
  /\ hits = <<>>
  /\ served = NoServed
  /\ batch = NoBatch
  /\ lin = NoLin
  /\ rb = NoRb
  /\ ver = NoVer
  /\ cop = NoCop
  /\ cleanupTimer = NoTimer

RbNext ==
  \/ RbArrive
  \/ \E k \in 1..MaxBatchReqs : RbRead(k)
  \/ \E k \in 1..MaxBatchReqs : RbRecord(k)
  \/ RbRespond
SpecRecBatch == RbInit /\ [][RbNext]_vars

\* ------------------------------------------------------- API versioning
API_VERSIONS ==
  [v \in {"v0", "v1", "v2"} |->
     [version |-> v, supported |-> TRUE, deprecated |-> (v = "v0")]]
DEFAULT_VERSION == "v1"
CURRENT_VERSION == "v2"

\* the strings of the form v<digits> that requests carry: the configured
\* versions and one that is not configured
VersionTokens == {"v0", "v1", "v2", "v9"}

\* A path is the sequence of its segments.  The requests under /api:
\* a route, the same route behind a version prefix, and a path whose
\* second and third segments read like a prefix.
VerPaths ==
  {<<"api", "recommend">>} \cup
  {<<"api", v, "recommend">> : v \in VersionTokens} \cup
  {<<"api", "api", "v2", "recommend">>}
VerAccepts ==
  {[vendor |-> FALSE, v |-> "none"],               \* no Accept header
   [vendor |-> FALSE, v |-> "application/json"]} \cup
  {[vendor |-> TRUE, v |-> v] : v \in VersionTokens} \* application/vnd.fashion-api.vN+json
VerRequests ==
  [path : VerPaths, accept : VerAccepts,
   header : {"none"} \cup VersionTokens, query : {"none"} \cup VersionTokens]

\* app.use('/api', fn): inside fn, req.path and req.url are the path after
\* the mount point; after fn the mount point is put back in front of req.url
Mounted(path) == Tail(path)
Restored(url) == <<"api">> \o url

\* extractVersion, on the request as the middleware sees it
extractVersion(path, accept, header, query) ==
  IF Len(path) >= 3 /\ path[1] = "api" /\ path[2] \in VersionTokens
    THEN path[2]
  ELSE IF accept.vendor
    THEN accept.v
  ELSE IF header # "none" /\ header \in DOMAIN API_VERSIONS
    THEN header
  ELSE IF query # "none" /\ query \in DOMAIN API_VERSIONS
    THEN query
  ELSE DEFAULT_VERSION

\* rewritePath: a leading /api/v<digits>/ of req.url becomes /api/
rewritePath(url) ==
  IF Len(url) >= 3 /\ url[1] = "api" /\ url[2] \in VersionTokens
    THEN <<"api">> \o SubSeq(url, 3, Len(url))
    ELSE url

\* addVersionHeaders (the deprecation headers are left out)
addVersionHeaders ==
  {"API-Version", "API-Current-Version", "API-Supported-Versions"}

\* the middleware apiVersioning, mounted on /api
apiVersioning ==
  /\ ver.pc = "versioning"
  /\ LET r == ver.req
         version == extractVersion(Mounted(r.path), r.accept, r.header, r.query)
     IN  IF version \notin DOMAIN API_VERSIONS
           THEN ver' = [ver EXCEPT !.pc = "done", !.status = 400,
                                   !.by = "versioning"]
         ELSE IF ~API_VERSIONS[version].supported
           THEN ver' = [ver EXCEPT !.pc = "done", !.status = 410,
                                   !.by = "versioning"]
         ELSE ver' = [ver EXCEPT !.pc = "route",
                                 !.apiVersion = version,
                                 !.url = Restored(rewritePath(Mounted(r.path))),
                                 !.headers = addVersionHeaders]
  /\ UNCHANGED <<now, ticks, guardVars, dbVars, reqs, cache, recs, hits, served, batch, lin, rb, cop, cleanupTimer>>

\* the routes under /api and the statuses their handlers answer
VerRoutes == {<<"api", "recommend">>}
HandlerStatuses == {200, 404, 429, 500}

\* The rest of the chain: a route of the router answers with the body
\* stamped by versionedResponse (_api_version = req.apiVersion); any other
\* url ends in the catch-all 404.
VerRoute ==
  /\ ver.pc = "route"
  /\ IF ver.url \in VerRoutes
       THEN \E status \in HandlerStatuses :
              ver' = [ver EXCEPT !.pc = "done", !.status = status,
                                 !.by = "handler"]
       ELSE ver' = [ver EXCEPT !.pc = "done", !.status = 404, !.by = "notfound"]
  /\ UNCHANGED <<now, ticks, guardVars, dbVars, reqs, cache, recs, hits, served, batch, lin, rb, cop, cleanupTimer>>

VerInit ==
  /\ now = 0
  /\ ticks = 0
  /\ recentRequestHashes = <<>>
  /\ feedbackHistory = <<>>
  /\ idempotencyKeys = <<>>
  /\ user_sessions = [s \in ExistingSessions |->
        [total_interactions |-> 0, updated_at |-> 0, status |-> "active",
         feature_dimensions |-> FEATURE_DIMENSIONS]]
  /\ session_history = [s \in ExistingSessions |-> <<>>]
  /\ interactions = <<>>
  /\ reqs = <<>>
  /\ cache = <<>>
  /\ recs = <<>>
  /\ hits = <<>>
  /\ served = NoServed
  /\ batch = NoBatch
  /\ lin = NoLin
  /\ rb = NoRb
  /\ \E r \in VerRequests : ver = [NoVer EXCEPT !.pc = "versioning", !.req = r]
  /\ cop = NoCop
  /\ cleanupTimer = NoTimer

VerNext == apiVersioning \/ VerRoute
SpecVersion == VerInit /\ [][VerNext]_vars

\* ------------------------------------------- RecommendationCache, by itself
\* The cache under set and get calls for several sessions, with maxSize
\* (process.env.CACHE_MAX_SIZE) small.  An item keeps, besides the fields of
\* CacheItem, its position in the Map's insertion order (seq) and the time it
\* was last stored or returned (used).
MaxCacheSize == 2
MaxCacheTicks == 3
MaxCacheCalls == 4
MaxIdleIterations == 1
CacheSessions == {"s1", "s2", "s3"}

\* removeOldest: the first item, in the Map's order, of the smallest
\* timestamp below Date.now(); nothing when no timestamp is below it
removeOldest(c, t) ==
  LET older == {k \in DOMAIN c : c[k].timestamp < t} IN
    IF older = {} THEN c
    ELSE LET oldestKey ==
               CHOOSE k \in older : \A j \in older \ {k} :
                 \/ c[k].timestamp < c[j].timestamp
                 \/ c[k].timestamp = c[j].timestamp /\ c[k].seq < c[j].seq
         IN  [k \in DOMAIN c \ {oldestKey} |-> c[k]]

\* this.cache.set(key, cacheItem): a key already in the Map keeps its place
CacheStore(c, sessionId, n) ==
  LET key == generateKey(sessionId, "none", 1) IN
    Put(c, key, [data |-> sessionId, timestamp |-> now, ttl |-> CACHE_TTL,
                 hits |-> 0, sessionId |-> sessionId, used |-> now,
                 seq |-> IF key \in DOMAIN c THEN c[key].seq ELSE n])

\* RecommendationCache.set is entered: with room in the Map the item is
\* stored at once, otherwise the eviction loop starts
CacheSet ==
  /\ cop.pc = "idle"
  /\ cop.calls < MaxCacheCalls
  /\ \E sessionId \in CacheSessions :
       IF Cardinality(DOMAIN cache) >= MaxCacheSize
         THEN /\ cop' = [cop EXCEPT !.pc = "evict", !.sessionId = sessionId,
                                    !.calls = @ + 1, !.idle = 0]
              /\ UNCHANGED cache
         ELSE /\ cache' = CacheStore(cache, sessionId, cop.inserted + 1)
              /\ cop' = [cop EXCEPT !.inserted = @ + 1, !.calls = @ + 1,
                                    !.idle = 0]
  /\ UNCHANGED <<now, ticks, guardVars, dbVars, reqs, recs, hits, served, batch, lin, rb, ver,
                 cleanupTimer>>

\* one iteration of while (this.cache.size >= this.maxSize) removeOldest();
\* when it leaves room, the item is stored and set returns.  cop.idle counts
\* the iterations of the call that removed nothing.
CacheEvict ==
  /\ cop.pc = "evict"
  /\ removeOldest(cache, now) = cache => cop.idle < MaxIdleIterations
  /\ LET c == removeOldest(cache, now) IN
       IF Cardinality(DOMAIN c) >= MaxCacheSize
         THEN /\ cache' = c
              /\ cop' = [cop EXCEPT !.idle = IF c = cache THEN @ + 1 ELSE @]
         ELSE /\ cache' = CacheStore(c, cop.sessionId, cop.inserted + 1)
              /\ cop' = [cop EXCEPT !.pc = "idle", !.sessionId = "none",
                                    !.inserted = @ + 1]
  /\ UNCHANGED <<now, ticks, guardVars, dbVars, reqs, recs, hits, served, batch, lin, rb, ver,
                 cleanupTimer>>

\* RecommendationCache.get: an expired item is deleted, a live one is
\* returned and its hits are counted
CacheGet ==
  /\ cop.pc = "idle"
  /\ cop.calls < MaxCacheCalls
  /\ \E sessionId \in CacheSessions :
       LET key == generateKey(sessionId, "none", 1) IN
         /\ key \in DOMAIN cache
         /\ cache' = IF CacheKeyLive(key)
                       THEN [cache EXCEPT ![key].hits = @ + 1, ![key].used = now]
                       ELSE RecommendationCacheGet(key)
  /\ cop' = [cop EXCEPT !.calls = @ + 1]
  /\ UNCHANGED <<now, ticks, guardVars, dbVars, reqs, recs, hits, served, batch, lin, rb, ver,
                 cleanupTimer>>

\* Date.now() moves on, also while the eviction loop is running
CacheTick ==
  /\ ticks < MaxCacheTicks
  /\ now' = now + 1
  /\ ticks' = ticks + 1
  /\ UNCHANGED <<guardVars, dbVars, reqs, cache, recs, hits, served, batch, lin, rb, ver, cop, cleanupTimer>>

CacheNext == CacheSet \/ CacheEvict \/ CacheGet \/ CacheTick
SpecCache == Init /\ [][CacheNext]_vars

\* ------------------------------------------------- requests under the limiters
RateTickSteps == {windowMs \div 2, windowMs}

\* the class window a request at time t falls in, as the requests counted so
\* far define it: a window opens with the first request of the class after
\* the previous window closed
WindowAt(tally, k, t) ==
  IF k \in DOMAIN tally /\ t < tally[k].start + windowMs
    THEN tally[k]
    ELSE [start |-> t, ok |-> 0, all |-> 0]

\* the requests of a run: those of the first client on the first path, up to
\* MaxOver beyond the maximum of their class in a window, plus a few of
\* another client on that path and of that client on a general path
Allowed(q) ==
  \/ served.first = NoRateRequest
  \/ q = served.first
  \/ q.ip # served.first.ip /\ q.path = served.first.path
  \/ q.ip = served.first.ip /\ q.path = <<"api", "health">>

RateRequest(q) ==
  LET class == ClassOf(q.path)
      k == <<class, q.ip>>
      run == RunLimiters(hits, LimitersOf(q.path), q.ip, now)
      window == WindowAt(served.tally, k, now)
      passed == run.resp.status # 429
  IN  /\ Allowed(q)
      /\ window.all < (IF served.first \in {NoRateRequest, q}
                         THEN RateMax[class] + MaxOver ELSE MaxOther)
      /\ hits' = run.store
      /\ served' =
           [first |-> IF served.first = NoRateRequest THEN q ELSE served.first,
            last |-> [ip |-> q.ip, path |-> q.path, at |-> now,
                      before |-> window.all, resp |-> run.resp],
            tally |-> Put(served.tally, k,
                          [window EXCEPT !.all = @ + 1,
                             !.ok = IF passed THEN @ + 1 ELSE @])]
      /\ UNCHANGED <<now, ticks, guardVars, dbVars, reqs, cache, recs, batch, lin, rb, ver, cop, cleanupTimer>>

\* time passes; windows that have closed are dropped from the store (a closed
\* window counts like an absent one) and from the record of answers
RateTick ==
  \E d \in RateTickSteps :
    /\ now + d <= MaxWindows * windowMs
    /\ now' = now + d
    /\ hits' = [k \in {x \in DOMAIN hits : now' < hits[x].resetTime} |-> hits[k]]
    /\ served' = [served EXCEPT !.tally =
                    [k \in {x \in DOMAIN served.tally :
                              now' < served.tally[x].start + windowMs}
                       |-> served.tally[k]]]
    /\ UNCHANGED <<ticks, guardVars, dbVars, reqs, cache, recs, batch, lin, rb, ver, cop, cleanupTimer>>

RateNext ==
  \/ \E q \in RateRequests : RateRequest(q)
  \/ RateTick

SpecRate == Init /\ [][RateNext]_vars

\* ------------------------------------------------- POST /api/feedback/batch
\* the items clients send: sessionId, productId, action
BatchItems ==
  [sessionId : {"s1"}, productId : {"P1", "P2"}, action : {"like", "love"}]
    \cup {[sessionId |-> "s9", productId |-> "P1", action |-> "like"],
          [sessionId |-> "s1", productId |-> "P99", action |-> "like"]}

\* the field names of the items sent: camel (sessionId, productId), snake
\* (session_id, product_id) or both
BatchShapes == {"camel", "snake", "both"}

BatchBodies ==
  UNION {[1..n -> BatchItems] : n \in 1..MaxBatchLen}

\* validateBatchFeedbackRequest and handleValidationErrors: every item needs
\* session_id (a UUID) and product_id
validateBatchFeedbackRequest(feedbacks, shape) == shape \in {"snake", "both"}

\* the handler destructures sessionId and productId; an item sent with the
\* snake names only has neither
Destructure(item, shape) ==
  IF shape = "snake"
    THEN [sessionId |-> "undefined", productId |-> "undefined",
          action |-> item.action]
    ELSE item

\* checkBatchFeedbackConflicts: the key set after the items before index k
RECURSIVE batchFeedbackKeys(_, _)
batchFeedbackKeys(feedbacks, k) ==
  IF k = 0 THEN {}
  ELSE LET before == batchFeedbackKeys(feedbacks, k - 1)
           f == feedbacks[k]
       IN  before \cup {FeedbackKey(f.sessionId, f.productId, f.action)}

\* checkBatchFeedbackConflicts: index is the item's position, from 0
checkBatchFeedbackConflicts(feedbacks, t) ==
  LET conflictAt(k) ==
        LET f == feedbacks[k] IN
        IF FeedbackKey(f.sessionId, f.productId, f.action)
             \in batchFeedbackKeys(feedbacks, k - 1)
          THEN "batch_conflict"
          ELSE checkFeedbackConflict(f.sessionId, f.productId, f.action,
                                     NoKey, t).type
  IN  {[index |-> k - 1, type |-> conflictAt(k)] :
         k \in {x \in 1..Len(feedbacks) : conflictAt(x) # "none"}}

\* feedbacksBySession: the sessions in order of first appearance
RECURSIVE SessionsInOrder(_)
SessionsInOrder(feedbacks) ==
  IF feedbacks = <<>> THEN <<>>
  ELSE LET rest == SessionsInOrder(SubSeq(feedbacks, 1, Len(feedbacks) - 1))
           s == feedbacks[Len(feedbacks)].sessionId
       IN  IF \E k \in 1..Len(rest) : rest[k] = s THEN rest ELSE Append(rest, s)

\* the positions of the items of one session, in order
RECURSIVE ItemsOf(_, _, _)
ItemsOf(feedbacks, s, k) ==
  IF k > Len(feedbacks) THEN <<>>
  ELSE IF feedbacks[k].sessionId = s
    THEN <<k>> \o ItemsOf(feedbacks, s, k + 1)
    ELSE ItemsOf(feedbacks, s, k + 1)

\* one run of enhancedDuplicateDetection for a request without session_id and
\* product_id in its body: the general duplicate check only
BatchGuard(rrh, hash) ==
  IF hash \in DOMAIN rrh /\ now - rrh[hash].timestamp < GENERAL_REQUEST
    THEN [pass |-> FALSE, rrh |-> rrh]
    ELSE [pass |-> TRUE,
          rrh |-> Put(rrh, hash,
                      [timestamp |-> now, idempotencyKey |-> NoKey, req |-> 0])]

BatchAnswer(b, status, type) == [b EXCEPT !.pc = "done", !.status = status, !.type = type]

\* an entry of results for the item at position k
BatchResult(k, processed) == [item |-> k, processed |-> processed]

\* "Validate all feedbacks first": an item without sessionId, productId or
\* action gets a failed result; without continueOnError the loop stops at the
\* first of them.  The actions and session ids that reach the handler passed
\* validateBatchFeedbackRequest, so the other two tests of the loop never fail.
RECURSIVE ValidateAll(_, _, _)
ValidateAll(feedbacks, continueOnError, k) ==
  IF k > Len(feedbacks) THEN <<>>
  ELSE IF feedbacks[k].sessionId = "undefined"
            \/ feedbacks[k].productId = "undefined"
    THEN IF continueOnError
           THEN <<BatchResult(k, FALSE)>>
                  \o ValidateAll(feedbacks, continueOnError, k + 1)
           ELSE <<BatchResult(k, FALSE)>>
    ELSE ValidateAll(feedbacks, continueOnError, k + 1)

\* the guard on the application (body not parsed) and on the route, the
\* validation, and the handler up to its first await
BatchArrive ==
  /\ batch.pc = "none"
  /\ \E ip \in {"ip1"}, body \in BatchBodies, shape \in BatchShapes,
     ignoreConflicts \in BOOLEAN, continueOnError \in BOOLEAN :
    LET b == [NoBatch EXCEPT !.ip = ip, !.feedbacks = body, !.shape = shape,
                             !.ignoreConflicts = ignoreConflicts,
                             !.continueOnError = continueOnError]
        appGuard == BatchGuard(recentRequestHashes,
                      [ip |-> ip, method |-> "POST",
                       path |-> "/api/feedback/batch", body |-> <<>>])
        routeGuard == BatchGuard(appGuard.rrh,
                        [ip |-> ip, method |-> "POST",
                         path |-> "/feedback/batch",
                         body |-> <<body, shape, ignoreConflicts,
                                    continueOnError>>])
        feedbacks == [k \in 1..Len(body) |-> Destructure(body[k], shape)]
        batchConflicts == checkBatchFeedbackConflicts(feedbacks, now)
        invalid == ValidateAll(feedbacks, continueOnError, 1)
    IN  /\ IF ~appGuard.pass
             THEN /\ batch' = BatchAnswer(b, 409, "duplicate_request")
                  /\ UNCHANGED recentRequestHashes
           ELSE IF ~routeGuard.pass
             THEN /\ batch' = BatchAnswer(b, 409, "duplicate_request")
                  /\ recentRequestHashes' = appGuard.rrh
           ELSE /\ recentRequestHashes' = routeGuard.rrh
                /\ IF ~validateBatchFeedbackRequest(body, shape)
                     THEN batch' = BatchAnswer(b, 400, "validation_failed")
                   ELSE IF batchConflicts # {} /\ ~ignoreConflicts
                     THEN batch' = [BatchAnswer(b, 409, "batch_conflicts")
                                      EXCEPT !.conflicts = batchConflicts]
                   ELSE batch' = [b EXCEPT !.pc = "session",
                                    !.feedbacks = feedbacks,
                                    !.conflicts = batchConflicts,
                                    !.results = invalid,
                                    !.failedFeedbacks = Len(invalid),
                                    !.groups = SessionsInOrder(feedbacks)]
        /\ UNCHANGED <<now, ticks, feedbackHistory, idempotencyKeys, dbVars,
                       reqs, cache, recs, hits, served, lin, rb, ver, cop, cleanupTimer>>

\* the next session of the batch, or the response when none is left
NextGroup(b) ==
  IF Len(b.groups) > 1
    THEN [b EXCEPT !.pc = "session", !.groups = Tail(@), !.todo = <<>>,
                   !.interactionDocs = <<>>, !.sessionSuccessCount = 0]
    ELSE [b EXCEPT !.pc = "done", !.status = 200, !.type = "batch_processed",
                   !.groups = <<>>, !.todo = <<>>, !.interactionDocs = <<>>,
                   !.sessionSuccessCount = 0]

\* break out of the loop over the sessions: the response is sent
LastGroup(b) == NextGroup([b EXCEPT !.groups = <<>>])

\* the session is missing or not active: one failed result for each of its
\* items, then the next session, or the response without continueOnError
FailGroup(b, sessionId) ==
  LET items == ItemsOf(b.feedbacks, sessionId, 1)
      failed == [b EXCEPT
                   !.results = @ \o [n \in 1..Len(items) |->
                                       BatchResult(items[n], FALSE)],
                   !.failedFeedbacks = @ + Len(items)]
  IN  IF b.continueOnError THEN NextGroup(failed) ELSE LastGroup(failed)

\* load the session and its interactions, replay them
BatchSession ==
  /\ batch.pc = "session"
  /\ LET sessionId == Head(batch.groups) IN
       IF sessionId \notin DOMAIN user_sessions
         THEN batch' = FailGroup(batch, sessionId)
       ELSE IF user_sessions[sessionId].status # "active"
         THEN batch' = FailGroup(batch, sessionId)
         ELSE batch' = [batch EXCEPT
                !.pc = "item",
                !.todo = ItemsOf(batch.feedbacks, sessionId, 1),
                !.totalInteractions = Cardinality(SessionInteractions(sessionId)),
                !.interactionDocs = <<>>]
  /\ UNCHANGED <<now, ticks, guardVars, dbVars, reqs, cache, recs, hits, served, lin, rb, ver, cop, cleanupTimer>>

\* one item of the session: product, model update, updateUserAction, and the
\* interaction document kept for the insert
BatchItem ==
  /\ batch.pc = "item"
  /\ batch.todo # <<>>
  /\ LET k == Head(batch.todo)
         f == batch.feedbacks[k]
         hist == session_history[f.sessionId]
         after == [batch EXCEPT
                     !.todo = Tail(@),
                     !.totalInteractions = @ + 1,
                     !.interactionDocs = Append(@,
                        [session_id |-> f.sessionId, product_id |-> f.productId,
                         action |-> f.action,
                         reward |-> mapActionToReward(f.action), req |-> 0]),
                     !.processed = @ \cup {k},
                     !.sessionSuccessCount = @ + 1,
                     !.results = Append(@, BatchResult(k, TRUE))]
     IN  IF f.productId \notin Catalog
           THEN /\ batch' = [batch EXCEPT
                               !.todo = IF batch.continueOnError
                                          THEN Tail(@) ELSE <<>>,
                               !.results = Append(@, BatchResult(k, FALSE)),
                               !.failedFeedbacks = @ + 1]
                /\ UNCHANGED session_history
         ELSE IF MatchingEntries(hist, f.productId) = {}
           THEN /\ batch' = after
                /\ UNCHANGED session_history
         ELSE \E m \in {FirstMatch(hist, f.productId),
                         LastMatch(hist, f.productId)} :
                /\ batch' = after
                /\ session_history' =
                     [session_history EXCEPT
                        ![f.sessionId] = updateUserAction(hist, m, f.action)]
  /\ UNCHANGED <<now, ticks, guardVars, user_sessions, interactions, reqs,
                 cache, recs, hits, served, lin, rb, ver, cop, cleanupTimer>>

\* collection.insertMany
insertMany(coll, docs) == coll \o docs

\* after the items of the session: insertMany, user_sessions.updateOne, then
\* the next session or the response
BatchInsert ==
  /\ batch.pc = "item"
  /\ batch.todo = <<>>
  /\ LET sessionId == Head(batch.groups) IN
       IF batch.interactionDocs # <<>>
         THEN /\ interactions' = insertMany(interactions, batch.interactionDocs)
              /\ user_sessions' =
                   [user_sessions EXCEPT ![sessionId] =
                      [@ EXCEPT !.total_interactions = batch.totalInteractions,
                                !.updated_at = now]]
         ELSE UNCHANGED <<interactions, user_sessions>>
  /\ batch' = NextGroup([batch EXCEPT
                !.successfulFeedbacks = @ + batch.sessionSuccessCount])
  /\ UNCHANGED <<now, ticks, guardVars, session_history, reqs, cache, recs,
                 hits, served, lin, rb, ver, cop, cleanupTimer>>

\* a feedback recorded by the guard before the batch, and the time since
BatchPriorFeedback ==
  [k \in {FeedbackKey("s1", "P1", "like")} |->
     [timestamp |-> 0, idempotencyKey |-> NoKey, processed |-> TRUE, req |-> 0]]
BatchTimes == {1000, 10000, FEEDBACK_SAME_PRODUCT}
\* the recommendation GET /api/recommend/s1 put into the cache at time 0
BatchCached ==
  Put(<<>>, generateKey("s1", "none", 1),
      [data |-> "P2", timestamp |-> 0, ttl |-> CACHE_TTL, sessionId |-> "s1",
       hlen |-> 2])

BatchInit ==
  /\ now \in BatchTimes
  /\ ticks = 0
  /\ recentRequestHashes = <<>>
  /\ feedbackHistory \in {<<>>, BatchPriorFeedback}
  /\ idempotencyKeys = <<>>
  /\ user_sessions = [s \in ExistingSessions |-> [total_interactions |-> 0, updated_at |-> 0, status |-> "active",
        feature_dimensions |-> FEATURE_DIMENSIONS]]
  /\ session_history =
       [s \in ExistingSessions |->
          << [id |-> 1, product_id |-> "P1", user_action |-> "null"],
             [id |-> 2, product_id |-> "P2", user_action |-> "null"] >>]
  /\ interactions = <<>>
  /\ reqs = <<>>
  /\ cache = BatchCached
  /\ recs = <<>>
  /\ hits = <<>>
  /\ served = NoServed
  /\ batch = NoBatch
  /\ lin = NoLin
  /\ rb = NoRb
  /\ ver = NoVer
  /\ cop = NoCop
  /\ cleanupTimer = NoTimer

BatchNext ==
  \/ BatchArrive
  \/ BatchSession
  \/ BatchItem
  \/ BatchInsert

SpecBatch == BatchInit /\ [][BatchNext]_vars

\* ====================================================== properties
Done(i) == reqs[i].pc = "done"
Processed(i) == reqs[i].resp.type = "feedback_processed"
\* request i passed both runs of the guard and reached the handler
PassedGuard(i) == reqs[i].pc \in HandlerPcs \/ reqs[i].by = "handler"
SameTuple(i, j) ==
  /\ reqs[i].q.session_id = reqs[j].q.session_id
  /\ reqs[i].q.product_id = reqs[j].q.product_id
  /\ reqs[i].q.action = reqs[j].q.action
SamePair(i, j) ==
  /\ reqs[i].q.session_id = reqs[j].q.session_id
  /\ reqs[i].q.product_id = reqs[j].q.product_id
\* request i committed part of the feedback mutation
Committed(i) == reqs[i].wrote \cap {"history", "interactions", "session"} # {}
InteractionsOf(i) == {k \in 1..Len(interactions) : interactions[k].req = i}
Abs(x) == IF x < 0 THEN -x ELSE x

\* C1: of the feedback requests that carry one idempotency key and arrive
\* within IDEMPOTENCY_WINDOW of each other, at most one commits a mutation
\* (history action, interaction append, total_interactions).
C1_AtMostOncePerKey ==
  \A i, j \in DOMAIN reqs :
    ( /\ i # j
      /\ reqs[i].q.key # NoKey
      /\ reqs[i].q.key = reqs[j].q.key
      /\ Abs(reqs[i].at - reqs[j].at) < IDEMPOTENCY_WINDOW )
    => ~(Committed(i) /\ Committed(j))

\* a key was sent twice within the window, both requests are answered, and
\* one of them was processed
C1_Witness ==
  \E i, j \in DOMAIN reqs :
    /\ i # j
    /\ reqs[i].q.key # NoKey
    /\ reqs[i].q.key = reqs[j].q.key
    /\ Abs(reqs[i].at - reqs[j].at) < IDEMPOTENCY_WINDOW
    /\ Done(i) /\ Done(j)
    /\ Processed(i)
    /\ reqs[j].resp.type = "idempotent_retry"

\* C2: a request answered as the idempotent retry of a request that was
\* answered before it arrived gets that request's status and body verbatim.
C2_ReplayIsPriorResponse ==
  \A i \in DOMAIN reqs :
    ( /\ reqs[i].resp.type = "idempotent_retry"
      /\ reqs[i].match # i
      /\ Done(reqs[i].match)
      /\ reqs[reqs[i].match].at < reqs[i].at )
    => reqs[i].resp = reqs[reqs[i].match].resp

\* C3: a request is rejected as duplicate_request only if the request whose
\* record it matched has the same ip, method, path, body and query and was
\* recorded less than GENERAL_REQUEST earlier.
C3_DuplicateOnlyIfSameRequest ==
  \A i \in DOMAIN reqs :
    reqs[i].resp.type = "duplicate_request" =>
      /\ reqs[reqs[i].match].q = reqs[i].q
      /\ reqs[i].at - reqs[reqs[i].match].at < GENERAL_REQUEST

\* C4: a keyless feedback for a (session, product) pair that arrives after a
\* feedback for that pair was processed, and less than RAPID_FEEDBACK after
\* it, is answered 409 rapid_feedback, whatever its action.
C4_RapidFeedbackRejected ==
  \A i, j \in DOMAIN reqs :
    ( /\ j < i
      /\ Processed(j)
      /\ Done(i)
      /\ reqs[i].resp.status # 500
      /\ reqs[i].q.key = NoKey
      /\ SamePair(i, j)
      /\ reqs[j].at < reqs[i].at
      /\ reqs[i].at - reqs[j].at < RAPID_FEEDBACK )
    => (reqs[i].resp.status = 409 /\ reqs[i].resp.type = "rapid_feedback")

\* C5: a keyless feedback for a (session, product) pair that arrives more
\* than RAPID_FEEDBACK and less than FEEDBACK_SAME_PRODUCT after the processed
\* feedback for that pair is answered 409 feedback_conflict with
\* retry_after_seconds = 60 - seconds elapsed, whatever its action.
C5_SameProductWindowRejected ==
  \A i, j \in DOMAIN reqs :
    ( /\ j < i
      /\ Processed(j)
      /\ Done(i)
      /\ reqs[i].resp.status # 500
      /\ reqs[i].q.key = NoKey
      /\ SamePair(i, j)
      /\ reqs[i].at - reqs[j].at > RAPID_FEEDBACK
      /\ reqs[i].at - reqs[j].at < FEEDBACK_SAME_PRODUCT )
    => /\ reqs[i].resp.status = 409
       /\ reqs[i].resp.type = "feedback_conflict"
       /\ reqs[i].resp.retry =
            CeilDiv(FEEDBACK_SAME_PRODUCT - (reqs[i].at - reqs[j].at), 1000)

\* C6: a feedback for a (session, product, action) tuple that arrives
\* FEEDBACK_SAME_PRODUCT or more after the last processed feedback for that
\* tuple, and is not the retry of an idempotency key sent before, passes the
\* guard and, unless the database fails, is processed (200).
C6_ChangeOfMindProcessed ==
  \A i \in DOMAIN reqs :
    ( /\ Done(i)
      /\ reqs[i].resp.status # 500
      /\ \A j \in 1..(i - 1) :
           reqs[i].q.key = NoKey \/ reqs[j].q.key # reqs[i].q.key
      /\ \E j \in 1..(i - 1) : Processed(j) /\ SameTuple(i, j)
      /\ \A j \in 1..(i - 1) :
           (SameTuple(i, j) /\ PassedGuard(j))
             => reqs[i].at - reqs[j].at >= FEEDBACK_SAME_PRODUCT )
    => (reqs[i].resp.status = 200 /\ Processed(i))

\* C7: a feedback call answered 200 by the handler has exactly one entry of
\* its own in the interaction log.
C7_OneNewInteraction ==
  \A i \in DOMAIN reqs : Processed(i) => Cardinality(InteractionsOf(i)) = 1

\* a feedback call has been answered 200 by the handler while another call on
\* the same session appended its own interaction
C7_Witness ==
  \E i, j \in DOMAIN reqs :
    /\ i # j
    /\ Processed(i)
    /\ reqs[i].q.session_id = reqs[j].q.session_id
    /\ InteractionsOf(j) # {}

\* C8: no operation reads a session's history or interaction log while
\* another operation on that session is between its first read and its last
\* write.
Between == {"setaction", "replay", "insert", "session"}
ReadsSessionData(i) ==
  \/ reqs[i].pc = "replay" /\ reqs'[i].pc = "insert"
  \/ reqs[i].pc = "prefs" /\ reqs'[i].pc = "done" /\ reqs'[i].resp.status = 200

C8_SerializedPerSession ==
  [][ \A i \in DOMAIN reqs :
        ReadsSessionData(i) =>
          \A j \in DOMAIN reqs :
            (j # i /\ reqs[j].q.session_id = reqs[i].q.session_id)
              => reqs[j].pc \notin Between ]_vars

\* C9: no feedback call ends with the history action set and no interaction
\* recorded.
C9_HistoryAndInteractionTogether ==
  \A i \in DOMAIN reqs :
    (Done(i) /\ "history" \in reqs[i].wrote) => "interactions" \in reqs[i].wrote

\* C10 as stated: a request answered 404 has changed nothing, the guard
\* tables included.
C10_NotFoundChangesNothing ==
  \A i \in DOMAIN reqs : reqs[i].resp.status = 404 => reqs[i].wrote = {}

\* C10 as amended: a request answered 404 has written nothing to the session
\* history, the interaction log or the session record; it has written the
\* guard tables.
C10_NotFoundChangesNoCollection ==
  \A i \in DOMAIN reqs :
    reqs[i].resp.status = 404 => reqs[i].wrote = {"guard"}

\* a request for a missing session and one for a missing product have both
\* been answered 404
C10_Witness ==
  /\ \E i \in DOMAIN reqs : reqs[i].resp.type = "session_not_found"
  /\ \E i \in DOMAIN reqs : reqs[i].resp.type = "product_not_found"

\* ------------------------------------------------ recommend, cache, history
RecOk(r) == recs[r].pc = "done" /\ recs[r].status = 200

\* C11: the product of a successful recommend call is not among the
\* EXCLUSION_WINDOW most recent history entries of the session at the time of
\* the call.
C11_ReturnedProductNotRecent ==
  \A r \in DOMAIN recs : RecOk(r) => recs[r].product \notin recs[r].recent

\* C12: successful recommend calls of one session that follow one another,
\* fewer than EXCLUSION_WINDOW apart and with no feedback request in between,
\* return pairwise distinct products.
C12_ConsecutiveDistinct ==
  \A r1, r2 \in DOMAIN recs :
    ( /\ r1 \in recs[r2].after
      /\ r2 - r1 < EXCLUSION_WINDOW
      /\ RecOk(r1) /\ RecOk(r2)
      /\ recs[r1].session = recs[r2].session
      /\ recs[r1].fb = recs[r2].fb )
    => recs[r1].product # recs[r2].product

\* C13: a cached response is served only when the session's history is as
\* long as it was when the entry was stored.
C13_HitOnlyAtStoredLength ==
  \A r \in DOMAIN recs : recs[r].hit => recs[r].hlenHit = recs[r].hlenSet

\* C14: as without the cache, every successful recommend call has recorded
\* the product it returns in the session history.
C14_EveryAnswerRecorded ==
  \A r \in DOMAIN recs : RecOk(r) => recs[r].newId # 0

\* C15: when the feedback handler answers 200 for session s, the cache holds
\* no entry of s.
C15_NoCacheEntryAfterFeedback ==
  [][ \A i \in DOMAIN reqs :
        (reqs[i].pc = "prefs" /\ reqs'[i].resp.type = "feedback_processed")
          => \A k \in DOMAIN cache' :
               cache'[k].sessionId # reqs[i].q.session_id ]_vars

\* a processed feedback removed a cached recommendation of its session
C15_Witness ==
  \E i \in DOMAIN reqs : Processed(i) /\ "cache" \in reqs[i].wrote

\* C16: with no record_shown in progress, a session that has had K entries
\* inserted stores exactly min(K, HISTORY_RETENTION) of them, the most
\* recently inserted ones, in order.
Inserted(s) ==
  Len(ShownSoFar)
    + Cardinality({r \in DOMAIN recs : recs[r].session = s /\ recs[r].newId # 0})

C17_NeverSeesMoreThanRetention ==
  \A r \in DOMAIN recs :
    /\ recs[r].seen <= HISTORY_RETENTION
    /\ Cardinality(recs[r].oldIds) <= 1

\* C18: set_action changes exactly one entry of the session's history, the
\* most recently shown one that matches the product.
C18_SetActionOnMostRecent ==
  [][ \A i \in DOMAIN reqs :
        (reqs[i].pc = "setaction" /\ reqs'[i].pc = "replay") =>
          LET s == reqs[i].q.session_id
              m == MatchingEntries(session_history[s], reqs[i].q.product_id)
              changed == {k \in 1..Len(session_history[s]) :
                            session_history'[s][k] # session_history[s][k]}
          IN  m # {} => (changed \subseteq m /\ Cardinality(changed) = 1
                         /\ \A k \in changed : \A x \in m : x <= k) ]_vars

\* ---------------------------------------------------------- rate limiting
ClaimedMax == [session |-> 5, recommendations |-> 30, feedback |-> 50,
               batch |-> 10, general |-> 100]

C20_WhitelistNeverLimited ==
  skipRateLimitForWhitelist(served.last.ip) => served.last.resp.status # 429

\* ------------------------------------------------------- batch feedback
\* two items of the batch name the same session and product
SamePairTwice(b) ==
  \E i, j \in 1..Len(b.feedbacks) :
    /\ i < j
    /\ b.feedbacks[i].sessionId = b.feedbacks[j].sessionId
    /\ b.feedbacks[i].productId = b.feedbacks[j].productId

\* every item of the batch carries its fields under both names and names a
\* session and a product that exist
WellFormed(b) ==
  /\ b.shape = "both"
  /\ \A k \in 1..Len(b.feedbacks) :
       /\ b.feedbacks[k].sessionId \in ExistingSessions
       /\ b.feedbacks[k].productId \in Catalog

\* C21: with default options a batch with two items for the same session and
\* product (and no feedback recorded before it) is answered 409 with a conflict report that names the position of
\* a later item of such a pair, and no item is processed.
C21_SamePairRejected ==
  ( /\ batch.pc = "done"
    /\ WellFormed(batch)
    /\ ~batch.ignoreConflicts
    /\ feedbackHistory = <<>>
    /\ SamePairTwice(batch) )
  => /\ batch.status = 409
     /\ \E c \in batch.conflicts :
          \E i \in 1..c.index :
            /\ batch.feedbacks[i].sessionId = batch.feedbacks[c.index + 1].sessionId
            /\ batch.feedbacks[i].productId = batch.feedbacks[c.index + 1].productId
     /\ batch.processed = {}
     /\ interactions = <<>>

\* C22: with ignoreConflicts a batch with several items for the same session
\* and product is answered 200 and one interaction is appended for every
\* distinct session and product of the batch.
C22_EachPairOnce ==
  ( /\ batch.pc = "done"
    /\ WellFormed(batch)
    /\ batch.ignoreConflicts
    /\ SamePairTwice(batch) )
  => /\ batch.status = 200
     /\ \A k \in 1..Len(batch.feedbacks) :
          Cardinality({x \in 1..Len(interactions) :
                         /\ interactions[x].session_id = batch.feedbacks[k].sessionId
                         /\ interactions[x].product_id = batch.feedbacks[k].productId})
            = 1

\* ------------------------------------------------------ inactive sessions
Inactive(s) == s \in DOMAIN user_sessions /\ user_sessions[s].status # "active"

\* C23: a recommend or feedback request that names an inactive session is
\* answered 404 or 410, returns no recommendation and writes no history entry
\* and no interaction.
C23_InactiveSessionRejected ==
  /\ \A i \in DOMAIN reqs :
       (Done(i) /\ PassedGuard(i) /\ Inactive(reqs[i].q.session_id))
         => /\ reqs[i].resp.status \in {404, 410}
            /\ reqs[i].wrote = {}
  /\ \A r \in DOMAIN recs :
       (recs[r].pc = "done" /\ Inactive(recs[r].session))
         => /\ recs[r].status \in {404, 410}
            /\ recs[r].product = "none"
            /\ recs[r].newId = 0
ThetaDiff(t, u, k) ==
  LET x == t.num[k] * u.den - u.num[k] * t.den IN IF x < 0 THEN -x ELSE x
BothReplayed == lin.pc = "replay" /\ lin.done = Len(interactions) /\ lin.rest = {}
C25_ReplayEquivalence ==
  BothReplayed =>
    \A k \in FeatureIdx :
      LET diff == ThetaDiff(lin.first.theta, lin.second.theta, k)
          dens == 10 * lin.first.theta.den * lin.second.theta.den
      IN  diff = 0 \/ diff <= dens \div 1000000000
C25_Witness ==
  /\ BothReplayed
  /\ Len(interactions) = MaxLogLen
  /\ \A j, k \in 1..Len(interactions) : j # k => interactions[j] # interactions[k]
  /\ \E k \in FeatureIdx : lin.first.theta.num[k] # 0

\* C26: in a batch recommendation the products returned for one session are
\* pairwise distinct: within a sub-request's recommendations, and between
\* two sub-requests of the batch that name the same session.
SubOk(k) == rb.subs[k].pc = "done" /\ rb.subs[k].error = "none"
C26_BatchProductsDistinct ==
  rb.pc = "done" =>
    \A j, k \in 1..Len(rb.subs) :
      (SubOk(j) /\ SubOk(k) /\ rb.requests[j].sessionId = rb.requests[k].sessionId) =>
        \A m \in 1..Len(rb.subs[j].selected), n \in 1..Len(rb.subs[k].selected) :
          (j # k \/ m # n) => rb.subs[j].selected[m] # rb.subs[k].selected[n]

\* C27: a sub-request whose count exceeds the number of scored candidates
\* returns all of them and its result is marked partial.
C27_PartialMarked ==
  \A k \in 1..Len(rb.subs) :
    (SubOk(k) /\ rb.requests[k].count > Cardinality(rb.subs[k].scored)) =>
      /\ {rb.subs[k].selected[m] : m \in 1..Len(rb.subs[k].selected)} = rb.subs[k].scored
      /\ "partial" \in rb.subs[k].fields

\* The versions a request names, by the means the specification lists.
PathPrefix(path) ==
  IF Len(path) >= 3 /\ path[1] = "api" /\ path[2] \in VersionTokens
    THEN path[2] ELSE "none"
AcceptVersion(accept) == IF accept.vendor THEN accept.v ELSE "none"
Selectors(r) ==
  <<PathPrefix(r.path), r.header, AcceptVersion(r.accept), r.query>>
Named(r) == {Selectors(r)[k] : k \in 1..4} \ {"none"}
Supported == {v \in DOMAIN API_VERSIONS : API_VERSIONS[v].supported}
\* the first one present in the order path, API-Version, Accept, query
FirstNamed(r) ==
  IF Named(r) = {} THEN DEFAULT_VERSION
  ELSE Selectors(r)[CHOOSE k \in 1..4 :
         /\ Selectors(r)[k] # "none"
         /\ \A j \in 1..(k - 1) : Selectors(r)[j] = "none"]

\* C28: of the version selectors a request carries, the earliest in the
\* order path prefix, API-Version header, Accept header, version query
\* parameter determines the version used.
C28_VersionPrecedence ==
  (ver.pc = "done" /\ Named(ver.req) # {} /\ Named(ver.req) \subseteq Supported) =>
    ver.apiVersion = FirstNamed(ver.req)

\* C29: every response to a request under /api, whatever its status,
\* carries API-Version, API-Current-Version and API-Supported-Versions.
C29_VersionHeadersAlways ==
  ver.pc = "done" =>
    {"API-Version", "API-Current-Version", "API-Supported-Versions"}
      \subseteq ver.headers

\* C30: a request whose version selectors name only versions that are not
\* supported is rejected with 400 or 410 by the versioning middleware and
\* is not served under another version.
C30_UnsupportedRejected ==
  (ver.pc = "done" /\ Named(ver.req) # {} /\ Named(ver.req) \cap Supported = {}) =>
    /\ ver.status \in {400, 410}
    /\ ver.apiVersion = "none"

\* C31: eviction is LRU: an iteration of the eviction loop never removes an
\* item that was used (stored or returned by get) more recently than an
\* item it leaves in the cache.
C31_EvictsLeastRecentlyUsed ==
  [][CacheEvict =>
       \A e \in DOMAIN cache \ DOMAIN removeOldest(cache, now) :
         \A f \in DOMAIN removeOldest(cache, now) :
           cache[e].used <= cache[f].used]_vars

\* C39: at maximum size, each iteration of the eviction loop of set removes
\* at least one entry: no iteration leaves the cache as it found it.
C39_EvictionIterationRemoves == cop.idle = 0

\* C32: a feedback POST that carries an idempotency key no earlier request
\* carried, and that meets no guard record of an earlier request (none from
\* its client, none for its tuple), is passed to the handler and processed
\* exactly once; it is not answered as an idempotent retry.
C32_FreshKeyProcessedOnce ==
  \A i \in DOMAIN reqs :
    ( /\ Done(i)
      /\ reqs[i].q.key # NoKey
      /\ reqs[i].resp.status \notin {404, 500}
      /\ \A j \in 1..(i - 1) :
           /\ reqs[j].q.key # reqs[i].q.key
           /\ reqs[j].q.ip # reqs[i].q.ip
           /\ ~SameTuple(i, j) )
    => /\ reqs[i].resp.type # "idempotent_retry"
       /\ Processed(i)
       /\ Cardinality(InteractionsOf(i)) = 1

\* C33: once every feedback call received so far has completed, none of them
\* with a database failure, each session's total_interactions equals the
\* number of interaction records stored for the session.
C33_TotalMatchesLog ==
  (\A i \in DOMAIN reqs : Done(i) /\ reqs[i].resp.status # 500) =>
    \A s \in DOMAIN user_sessions :
      user_sessions[s].total_interactions = Cardinality(SessionInteractions(s))

\* C34: a request answered 409 with retry_after_seconds = n and sent again n
\* seconds later, no other request in between, is not rejected by the guard
\* again.
C34_RetryAfterIsEnough ==
  \A i \in 2..Len(reqs) :
    ( /\ Done(i)
      /\ reqs[i].q = reqs[i - 1].q
      /\ reqs[i - 1].resp.status = 409
      /\ reqs[i].at = reqs[i - 1].at + 1000 * reqs[i - 1].resp.retry )
    => reqs[i].resp.status # 409

\* C35: in every session history, no two of any EXCLUSION_WINDOW consecutive
\* entries carry the same product_id.
C35_WindowEntriesDistinct ==
  \A s \in DOMAIN session_history :
    \A j, k \in 1..Len(session_history[s]) :
      (j < k /\ k - j < EXCLUSION_WINDOW) =>
        session_history[s][j].product_id # session_history[s][k].product_id

\* ------------------------------------------------ batch feedback response
\* the sessions for which the batch processed at least one feedback
BatchProcessedSessions ==
  {batch.feedbacks[k].sessionId : k \in batch.processed}

\* C36: after a POST /api/feedback/batch that processed at least one feedback
\* for a session, the recommendation cache holds no entry for that session.
C36_BatchInvalidatesCache ==
  (batch.pc = "done" /\ batch.status = 200) =>
    \A key \in DOMAIN cache :
      cache[key].sessionId \notin BatchProcessedSessions

\* C37: in every 200 response of POST /api/feedback/batch, results has exactly
\* one entry for each submitted feedback, and successful_feedbacks plus
\* failed_feedbacks is the number of feedbacks submitted.
C37_EachItemAccountedOnce ==
  (batch.pc = "done" /\ batch.status = 200) =>
    /\ \A k \in 1..Len(batch.feedbacks) :
         Cardinality({n \in 1..Len(batch.results) :
                        batch.results[n].item = k}) = 1
    /\ batch.successfulFeedbacks + batch.failedFeedbacks = Len(batch.feedbacks)
\* ------------------------------------------------- adaptive exploration
\* C38: after every model update that leaves total_interactions above 10 the
\* new alpha is max(MIN_ALPHA, decay * previous alpha), and alpha is never
\* above MAX_ALPHA nor below MIN_ALPHA.
C38_AlphaDecays ==
  [][ /\ lin'.first.alpha <= MAX_ALPHA
      /\ lin'.first.alpha >= MIN_ALPHA
      /\ (lin'.first.totalInteractions > lin.first.totalInteractions
           /\ lin'.first.totalInteractions > 10)
          => lin'.first.alpha
               = adaptAlpha([lin.first EXCEPT
                    !.totalInteractions = lin'.first.totalInteractions]).alpha
    ]_vars
\* ------------------------------------------------------- guard tables
\* the age of the oldest record of a table, 0 for an empty table
OldestAge(table) ==
  IF DOMAIN table = {} THEN 0
  ELSE LET k == CHOOSE x \in DOMAIN table :
                  \A y \in DOMAIN table : table[x].timestamp <= table[y].timestamp
       IN  now - table[k].timestamp

\* every table's oldest record is at most its window, the timer's period and
\* grace ms old
TablesWithin(grace) ==
  /\ OldestAge(recentRequestHashes) <= GENERAL_REQUEST + CLEANUP_INTERVAL + grace
  /\ OldestAge(feedbackHistory)
       <= FEEDBACK_SAME_PRODUCT * 2 + CLEANUP_INTERVAL + grace
  /\ OldestAge(idempotencyKeys) <= IDEMPOTENCY_WINDOW + CLEANUP_INTERVAL + grace

\* C40: no request-hash entry older than 30 s + 60 s, no feedback record
\* older than 120 s + 60 s and no idempotency-key entry older than 24 h + 60 s
\* remains in its table.
C40_TablesBounded == TablesWithin(0)

\* C40, amended: no record remains in its table for longer than its window
\* (twice the window for feedback records) plus the timer's period plus the
\* time by which the timer's run is late.
C40_TablesBoundedUpToLateness == TablesWithin(MaxLate)

\* an idempotency key that is 24 h, 60 s and the timer's lateness old is still
\* in its table
C40_Witness ==
  OldestAge(idempotencyKeys) = IDEMPOTENCY_WINDOW + CLEANUP_INTERVAL + MaxLate
====
